---- MODULE Spec2Model ----
(***************************************************************************)
(* Mintaka: process supervision.                                           *)
(*                                                                         *)
(* The foreground (Processes / Process, src/src/processes.rs) owns the     *)
(* process list, the `after` table, focus and mode.  Every started child   *)
(* has a ProcessInstance (src/src/processes/instances.rs): a reader thread *)
(* that sends statuses on an mpsc channel, a has-terminated flag, and, once *)
(* killed, a kill-timer thread.  The foreground operations are atomic      *)
(* actions (they run on one thread); the reader, the kill timer and the    *)
(* child advance by their own steps in between.                            *)
(***************************************************************************)
EXTENDS Integers, Sequences, FiniteSets, TLC

\* ------------------------------------------------------------------ bounds
MaxProcs == 2
MaxInstances == 2
MaxLines == 2
\* The terminal scrolls ScrollPerOutput rows at a time, MaxScroll rows in all,
\* and the window is resized between InitialRows and ResizedRows.
ScrollPerOutput == 3
MaxScroll == 3
ResizedRows == 4
InitialRows == 24

\* ------------------------------------------------------------------ values
NoName == "<none>"
Names == {"build", "serve"}
AutostartOptions == {"None", "Some(true)", "Some(false)"}
ExitCodes == {0, 1}
NoInstance == 0

ProcessConfigs ==
    [name : Names, after : Names \cup {NoName}, autostart : AutostartOptions]

\* ProcessStatus (src/src/processes/statuses.rs).  `a` and `b` carry the payload:
\* Success(SuccessId{process_instance_id: a, success_index: b}),
\* Errors{error_count: Some(a)} when b = 1 and None when b = 0, Exited{exit_code: a}.
Status(tag, a, b) == [tag |-> tag, a |-> a, b |-> b]
StatusNotStarted == Status("NotStarted", 0, 0)
StatusStopped == Status("Stopped", 0, 0)
StatusWaitingForUpstream == Status("WaitingForUpstream", 0, 0)
StatusFailedToStart == Status("FailedToStart", 0, 0)
StatusRunning == Status("Running", 0, 0)
StatusSuccess(instance_id, success_index) == Status("Success", instance_id, success_index)
StatusErrors(error_count) == Status("Errors", error_count, 1)
StatusExited(exit_code) == Status("Exited", exit_code, 0)

is_failure(status) ==
    CASE status.tag = "FailedToStart" -> TRUE
      [] status.tag = "Errors" -> TRUE
      [] status.tag = "Exited" -> status.a # 0
      [] OTHER -> FALSE

is_success(status) ==
    CASE status.tag = "Success" -> TRUE
      [] status.tag = "Exited" -> status.a = 0
      [] OTHER -> FALSE

\* An is_running that counts an exited process in.
is_runningWithExited(status) ==
    status.tag \in {"Running", "Success", "Errors", "Exited"}

is_running(status) ==
    status.tag \in {"Running", "Success", "Errors"}

\* What the analyzer makes of one completed output line, as the reader uses it:
\* "blank" gives no classification.
LineKinds == {"blank", "running", "success", "errors"}

\* ------------------------------------------------------------------ state
VARIABLES
    processes,              \* Processes::processes: Seq of Process
    instances,              \* every ProcessInstance started so far, with its threads
    after,                  \* Processes::after: upstream name -> Seq of process indices
    focused_process_index,  \* Processes::focused_process_index
    autofocus_enabled,      \* Processes::autofocus_enabled
    mode,                   \* Processes::mode
    snapshot,               \* Processes::snapshot
    pty_rows,               \* Processes::pty_size.rows
    crashed,                \* the foreground thread has panicked
    looping,                \* main has registered its processes and entered its loop
    lines_read,             \* lines read so far, by all readers (bounds the output)
    lastCall,               \* history: the foreground call that made the last step
    ui,                     \* the UI loop: where it is, and whether a wake is pending
    probe                   \* a function of the program, its arguments and its result

vars == <<processes, instances, after, focused_process_index, autofocus_enabled,
          mode, snapshot, pty_rows, crashed, looping, lines_read, lastCall, ui, probe>>

\* usize is modelled UsizeBits wide: `0 - 1` wraps to UsizeModulus - 1 in a
\* build without overflow checks, and panics in a build with them.
UsizeBits == 3
UsizeModulus == 2 ^ UsizeBits

\* lastCall records the foreground call that made the last step when that was
\* start_process, do_work, stop_all or restart_focused, and for do_work what
\* handle_status_updates drained and which restart() /
\* mark_waiting_for_upstream() calls it made; any other step resets it.
\* probe holds one call of a function of the program: which, on what, and once
\* it has been applied, with what result.
NoProbe == [fn |-> "none", in |-> <<>>, done |-> FALSE, out |-> <<>>]

\* ui is the UI loop's thread: at is the call it is in or about to make
\* (poll_input, do_work, render) and wake says whether a wake sent through
\* on_change has yet to make poll_input return.
UiAtPoll == [at |-> "poll_input", wake |-> FALSE]

NoRows == 0
NoCall == [op |-> "none", drained |-> <<>>, applied |-> <<>>, rows |-> NoRows, resized |-> {}]
Call(op) == [NoCall EXCEPT !.op = op]

\* ------------------------------------------------------------------ config
\* A default that ignores `after`.
autostartIgnoringAfter(config) ==
    config.autostart # "Some(false)"

autostart(config) ==
    CASE config.autostart = "None" -> config.after = NoName
      [] config.autostart = "Some(true)" -> TRUE
      [] OTHER -> FALSE

\* ------------------------------------------------------------------ Process
\* Process::new.  name, after and autostart are what the model keeps of
\* process_config; instance_state is the variant; instance and status are the
\* fields of the Running variant (NoInstance / StatusNotStarted otherwise).
\* observed is history: whether status was taken from the channel (TRUE) or
\* set by start() (FALSE).
ProcessNew(config) ==
    [name |-> config.name,
     after |-> config.after,
     autostart |-> config.autostart,
     observed |-> FALSE,
     instance_state |-> IF autostart(config) THEN "PendingRestart" ELSE "NotStarted",
     instance |-> NoInstance,
     status |-> StatusNotStarted,
     next_instance_id |-> 0,
     pty_rows |-> pty_rows]

\* to_status showing PendingRestart as NotStarted.
to_statusPendingAsNotStarted(process) ==
    CASE process.instance_state = "Stopped" -> StatusStopped
      [] process.instance_state = "WaitingForUpstream" -> StatusWaitingForUpstream
      [] process.instance_state \in {"NotStarted", "PendingRestart"} -> StatusNotStarted
      [] process.instance_state = "FailedToStart" -> StatusFailedToStart
      [] OTHER -> process.status

to_status(process) ==
    CASE process.instance_state = "NotStarted" -> StatusNotStarted
      [] process.instance_state = "Stopped" -> StatusStopped
      [] process.instance_state = "WaitingForUpstream" -> StatusWaitingForUpstream
      [] process.instance_state = "PendingRestart" -> StatusRunning
      [] process.instance_state = "FailedToStart" -> StatusFailedToStart
      [] OTHER -> process.status

is_stopped(process) == process.instance_state = "Stopped"

\* ProcessInstance as started by ProcessInstance::start: the child is alive, the
\* reader is in its read loop, the channel is empty and its receiver is held by
\* the Process.  exited_drained is history: whether the foreground has taken
\* this instance's Exited from the channel.
\* screen is the terminal's screen: physical_rows rows are visible, base
\* (phys_row(0)) rows have scrolled off above them, and lines is the number of
\* completed output lines perform_actions has put on it.
\* terminal_locked says whether the reader holds the terminal's mutex; chunk is
\* the number of lines the actions of the read in progress complete and
\* pending those of them the reader has yet to analyze.  analyzed and
\* last_sent_line are history: how many lines analyze_line has been given,
\* and which of them the last status sent was made of.
NewInstance(process_index, instance_id, rows) ==
    [process |-> process_index,
     id |-> instance_id,
     child |-> "alive",
     exit_code |-> 0,
     reader |-> "reading",
     next_success_index |-> 0,
     chan |-> <<>>,
     rx_open |-> TRUE,
     has_terminated |-> FALSE,
     sigterm |-> FALSE,
     sigkill |-> FALSE,
     timer |-> "none",
     exited_drained |-> FALSE,
     terminal_locked |-> FALSE,
     chunk |-> 0,
     pending |-> <<>>,
     analyzed |-> 0,
     last_sent_line |-> 0,
     screen |-> [physical_rows |-> rows, base |-> 0, lines |-> 0]]

\* A kill that starts the timer without sending SIGTERM first.
InstanceKillWithoutSigterm(instance) ==
    IF instance.has_terminated
    THEN instance
    ELSE [instance EXCEPT !.timer = "sleeping"]

\* A kill that does not look at the flag.
InstanceKillIgnoringFlag(instance) ==
    [instance EXCEPT !.sigterm = TRUE, !.timer = "sleeping"]

\* ProcessInstance::kill: nothing when the flag is set, else SIGTERM and a
\* kill-timer thread.
InstanceKill(instance) ==
    IF instance.has_terminated
    THEN instance
    ELSE [instance EXCEPT !.sigterm = TRUE, !.timer = "sleeping"]

\* A drop that leaves the channel and its receiver in place.
DropInstanceKeepingChannel(instance) == instance

\* The Running variant is dropped: the receiver goes with it, and whatever was
\* still in the channel is lost.
DropInstance(instance) ==
    [instance EXCEPT !.rx_open = FALSE, !.chan = <<>>]

\* A kill that changes the variant but leaves the instance with the Process.
ProcessKillKeepingInstance(S, k, new_process_instance_state) ==
    [p |-> [S.p EXCEPT ![k].instance_state = new_process_instance_state],
     i |-> IF S.p[k].instance_state = "Running"
           THEN [S.i EXCEPT ![S.p[k].instance] = InstanceKill(@)]
           ELSE S.i]

\* Process::kill on process k of S = [p |-> processes, i |-> instances].
ProcessKill(S, k, new_process_instance_state) ==
    LET previous == S.p[k] IN
    [p |-> [S.p EXCEPT ![k] = [previous EXCEPT
                !.instance_state = new_process_instance_state,
                !.instance = NoInstance,
                !.status = StatusNotStarted,
                !.observed = FALSE]],
     i |-> IF previous.instance_state = "Running"
           THEN [S.i EXCEPT ![previous.instance] = DropInstance(InstanceKill(@))]
           ELSE S.i]

ProcessStop(S, k) == ProcessKill(S, k, "Stopped")
ProcessRestart(S, k) == ProcessKill(S, k, "PendingRestart")
ProcessMarkWaitingForUpstream(S, k) == ProcessKill(S, k, "WaitingForUpstream")

\* The first status of a drain instead of the last.
First(seq) == seq[1]

\* Iterator::last on what try_iter yields.
Last(seq) == seq[Len(seq)]

\* Process::synchronize_status on process k: [S, action, window], action being
\* "Restart", "WaitForUpstream" or "None"; window is what the drain found.
SynchronizeStatus(S, k) ==
    LET process == S.p[k] IN
    IF process.instance_state = "Running" /\ S.i[process.instance].chan # <<>>
    THEN LET window == S.i[process.instance].chan
             new_status == Last(window)
         IN [S |-> [p |-> [S.p EXCEPT ![k].status = new_status, ![k].observed = TRUE],
                    i |-> [S.i EXCEPT ![process.instance] = [@ EXCEPT
                              !.chan = <<>>,
                              !.exited_drained = @ \/ new_status.tag = "Exited"]]],
             action |-> IF is_success(new_status) THEN "Restart" ELSE "WaitForUpstream",
             window |-> window]
    ELSE [S |-> S, action |-> "None", window |-> <<>>]

\* Process::start on process k; ok says whether ProcessInstance::start succeeds.
\* The id handed to ProcessInstance::start is the process's ProcessInstanceId
\* counter, taken by ProcessInstanceId::increment (value before the increment).
ProcessStart(S, k, ok) ==
    IF ok
    THEN [p |-> [S.p EXCEPT ![k] = [@ EXCEPT
                    !.instance_state = "Running",
                    !.instance = Len(S.i) + 1,
                    !.status = StatusRunning,
                    !.observed = FALSE,
                    !.next_instance_id = @ + 1]],
          i |-> Append(S.i, NewInstance(k, S.p[k].next_instance_id, S.p[k].pty_rows))]
    ELSE [p |-> [S.p EXCEPT ![k] = [@ EXCEPT
                    !.instance_state = "FailedToStart",
                    !.instance = NoInstance,
                    !.status = StatusNotStarted,
                    !.observed = FALSE]],
          i |-> S.i]

\* Process::do_work on process k.
\* do_work starting a NotStarted process as well.
ProcessDoWorkStartingNotStarted(S, k, ok) ==
    IF S.p[k].instance_state \in {"PendingRestart", "NotStarted"}
    THEN ProcessStart(S, k, ok) ELSE S

ProcessDoWork(S, k, ok) ==
    IF S.p[k].instance_state = "PendingRestart" THEN ProcessStart(S, k, ok) ELSE S

\* ------------------------------------------------------------------ Processes
\* First loop of Processes::handle_status_updates, from process k on: every
\* process is synchronized in index order and the actions are collected as
\* (upstream name, action) pairs; `upstream` records the index for the log.
RECURSIVE SynchronizeFrom(_, _, _, _)
SynchronizeFrom(S, k, downstream_actions, drained) ==
    IF k > Len(S.p)
    THEN [S |-> S, downstream_actions |-> downstream_actions, drained |-> drained]
    ELSE LET r == SynchronizeStatus(S, k) IN
         IF r.action = "None"
         THEN SynchronizeFrom(r.S, k + 1, downstream_actions, drained)
         ELSE SynchronizeFrom(r.S, k + 1,
                  Append(downstream_actions,
                         [name |-> S.p[k].name, action |-> r.action, upstream |-> k]),
                  Append(drained, [process |-> k, window |-> r.window]))

\* The match with its arms exchanged.
ApplyDownstreamActionExchanged(S, action, k) ==
    IF action = "Restart" THEN ProcessMarkWaitingForUpstream(S, k) ELSE ProcessRestart(S, k)

\* The match in the second loop: one action applied to one downstream process.
ApplyDownstreamAction(S, action, k) ==
    IF action = "Restart" THEN ProcessRestart(S, k) ELSE ProcessMarkWaitingForUpstream(S, k)

\* Inner loop: the action of one upstream applied to downstream_processes[d..].
RECURSIVE ApplyToDownstreams(_, _, _, _, _, _)
ApplyToDownstreams(S, afterMap, downstream_action, downstream_processes, d, applied) ==
    IF d > Len(downstream_processes)
    THEN [S |-> S, applied |-> applied]
    ELSE ApplyToDownstreams(
             ApplyDownstreamAction(S, downstream_action.action, downstream_processes[d]),
             afterMap, downstream_action, downstream_processes, d + 1,
             Append(applied, [upstream |-> downstream_action.upstream,
                              action |-> downstream_action.action,
                              downstream |-> downstream_processes[d]]))

\* A second loop that stops after the first action.
ApplyFromFirstOnly(S, afterMap, downstream_actions, j, applied) ==
    IF downstream_actions = <<>>
    THEN [S |-> S, applied |-> applied]
    ELSE ApplyToDownstreams(S, afterMap, downstream_actions[1],
                            afterMap[downstream_actions[1].name], 1, applied)

\* Second loop of handle_status_updates, from action j on.
RECURSIVE ApplyFrom(_, _, _, _, _)
ApplyFrom(S, afterMap, downstream_actions, j, applied) ==
    IF j > Len(downstream_actions)
    THEN [S |-> S, applied |-> applied]
    ELSE LET r == ApplyToDownstreams(S, afterMap, downstream_actions[j],
                                     afterMap[downstream_actions[j].name], 1, applied)
         IN ApplyFrom(r.S, afterMap, downstream_actions, j + 1, r.applied)

\* A second loop that applies each action to the downstream processes of
\* every name in the table.
HandleStatusUpdatesOfEveryName(S, afterMap) ==
    LET synced == SynchronizeFrom(S, 1, <<>>, <<>>)
        every == [n \in Names |-> afterMap["build"] \o afterMap["serve"]]
        done == ApplyFrom(synced.S, every, synced.downstream_actions, 1, <<>>)
    IN [S |-> done.S, drained |-> synced.drained, applied |-> done.applied]

HandleStatusUpdates(S, afterMap) ==
    LET synced == SynchronizeFrom(S, 1, <<>>, <<>>)
        done == ApplyFrom(synced.S, afterMap, synced.downstream_actions, 1, <<>>)
    IN [S |-> done.S, drained |-> synced.drained, applied |-> done.applied]

\* The loop of Processes::do_work over process.do_work(), from process k on;
\* ok is the set of processes whose spawn succeeds if attempted.
RECURSIVE DoWorkFrom(_, _, _, _)
DoWorkFrom(S, k, ok, started) ==
    IF k > Len(S.p)
    THEN [S |-> S, started |-> started]
    ELSE DoWorkFrom(ProcessDoWork(S, k, k \in ok), k + 1, ok,
                    IF S.p[k].instance_state = "PendingRestart"
                    THEN Append(started, k) ELSE started)

\* A should_autofocus that does not look at the mode.
should_autofocusIgnoringMode == autofocus_enabled

should_autofocus ==
    IF mode = "Main" THEN autofocus_enabled ELSE FALSE

\* An autofocus step that takes the last failing process.
AutofocusLastFailing(procs, focus) ==
    LET failing == {k \in 1..Len(procs) : is_failure(to_status(procs[k]))} IN
    IF failing = {} THEN focus
    ELSE (CHOOSE k \in failing : \A j \in failing : k >= j) - 1

\* The autofocus step of do_work: the index (0-based) of the first failing
\* process, or the focus as it was.
Autofocus(procs, focus) ==
    LET failing == {k \in 1..Len(procs) : is_failure(to_status(procs[k]))} IN
    IF failing = {} THEN focus
    ELSE (CHOOSE k \in failing : \A j \in failing : k <= j) - 1

Here == [p |-> processes, i |-> instances]

\* ------------------------------------------------------------------ foreground
\* Processes::start_process.
StartProcess(config, ok) ==
    /\ ~crashed
    /\ ~looping
    /\ LET process_index == Len(processes) + 1
           S == ProcessDoWork([p |-> Append(processes, ProcessNew(config)),
                               i |-> instances], process_index, ok)
       IN /\ Len(S.i) <= MaxInstances
          /\ after' = IF config.after # NoName
                      THEN [after EXCEPT ![config.after] = Append(@, process_index)]
                      ELSE after
          /\ processes' = S.p
          /\ instances' = S.i
          /\ lastCall' = Call("start_process")
    /\ UNCHANGED <<focused_process_index, autofocus_enabled, mode, snapshot, pty_rows, crashed, looping, probe, ui, lines_read>>

\* Processes::stop_all.
RECURSIVE StopFrom(_, _)
StopFrom(S, k) ==
    IF k > Len(S.p) THEN S ELSE StopFrom(ProcessStop(S, k), k + 1)

StopAll ==
    /\ ~crashed
    /\ looping
    /\ LET S == StopFrom(Here, 1) IN
       /\ processes' = S.p
       /\ instances' = S.i
    /\ lastCall' = Call("stop_all")
    /\ UNCHANGED <<after, focused_process_index, autofocus_enabled, mode, snapshot, pty_rows, crashed, looping, probe, ui, lines_read>>

\* Processes::do_work, the UI loop going on as next_ui.
DoWorkThen(ok, next_ui) ==
    /\ ~crashed
    /\ looping
    /\ \E handled \in {HandleStatusUpdates(Here, after)} :
       \E worked \in {DoWorkFrom(handled.S, 1, ok, <<>>)} :
          /\ Len(worked.S.i) <= MaxInstances
          /\ processes' = worked.S.p
          /\ instances' = worked.S.i
          /\ focused_process_index' =
                 IF should_autofocus
                 THEN Autofocus(worked.S.p, focused_process_index)
                 ELSE focused_process_index
          /\ lastCall' = [Call("do_work") EXCEPT !.drained = handled.drained,
                                                 !.applied = handled.applied]
    /\ ui' = next_ui
    /\ UNCHANGED <<after, autofocus_enabled, mode, snapshot, pty_rows, crashed, looping, probe, lines_read>>

\* Processes::do_work.
DoWork(ok) == DoWorkThen(ok, ui)

FocusInRange == focused_process_index >= 0 /\ focused_process_index < Len(processes)

\* Processes::restart_focused, the UI loop going on as next_ui; indexing out of
\* range panics.
RestartFocusedThen(next_ui) ==
    /\ ~crashed
    /\ looping
    /\ IF FocusInRange
       THEN LET S == ProcessRestart(Here, focused_process_index + 1) IN
            /\ processes' = S.p
            /\ instances' = S.i
            /\ UNCHANGED crashed
       ELSE /\ crashed' = TRUE
            /\ UNCHANGED <<processes, instances>>
    /\ lastCall' = Call("restart_focused")
    /\ ui' = next_ui
    /\ UNCHANGED <<after, focused_process_index, autofocus_enabled, mode, snapshot, pty_rows, looping, probe, lines_read>>

\* Processes::restart_focused.
RestartFocused == RestartFocusedThen(ui)

\* main: every configured process has been registered; the event loop begins.
EnterLoop ==
    /\ ~crashed
    /\ ~looping
    /\ looping' = TRUE
    /\ lastCall' = NoCall
    /\ UNCHANGED <<processes, instances, after, focused_process_index,
                   autofocus_enabled, mode, snapshot, pty_rows, crashed, lines_read,
                   probe, ui>>

\* Processes::move_focus_up.  `len() - 1` on the empty list overflows: a panic
\* with overflow checks, a wrap without.
FocusUp ==
    /\ \/ /\ focused_process_index > 0
          /\ focused_process_index' = focused_process_index - 1
          /\ UNCHANGED crashed
       \/ /\ focused_process_index = 0
          /\ Len(processes) > 0
          /\ focused_process_index' = Len(processes) - 1
          /\ UNCHANGED crashed
       \/ /\ focused_process_index = 0
          /\ Len(processes) = 0
          /\ \/ crashed' = TRUE /\ UNCHANGED focused_process_index
             \/ focused_process_index' = UsizeModulus - 1 /\ UNCHANGED crashed

MoveFocusUp ==
    /\ ~crashed
    /\ looping
    /\ FocusUp
    /\ lastCall' = NoCall
    /\ UNCHANGED <<processes, instances, after, autofocus_enabled, mode, snapshot, pty_rows, looping, probe, ui, lines_read>>

\* Processes::move_focus_down.  `index + 1` overflows only at the largest usize.
FocusDown ==
    /\ \/ /\ focused_process_index + 1 < UsizeModulus
          /\ focused_process_index' =
                 IF focused_process_index + 1 < Len(processes)
                 THEN focused_process_index + 1 ELSE 0
          /\ UNCHANGED crashed
       \/ /\ focused_process_index + 1 = UsizeModulus
          /\ \/ crashed' = TRUE /\ UNCHANGED focused_process_index
             \/ focused_process_index' = 0 /\ UNCHANGED crashed

MoveFocusDown ==
    /\ ~crashed
    /\ looping
    /\ FocusDown
    /\ lastCall' = NoCall
    /\ UNCHANGED <<processes, instances, after, autofocus_enabled, mode, snapshot, pty_rows, looping, probe, ui, lines_read>>

\* ------------------------------------------------------------------ snapshots
NoScreen == [physical_rows |-> 0, base |-> 0, lines |-> 0]
NoSnapshot == [held |-> FALSE, line_index |-> 0, screen |-> NoScreen]
ScrollDirections == {"PageUp", "PageDown", "LineUp", "LineDown"}

Min(a, b) == IF a < b THEN a ELSE b

\* ProcessSnapshot::new.
ProcessSnapshotNew(line_index, screen) ==
    [held |-> TRUE, line_index |-> line_index, screen |-> screen]

\* ProcessInstance::snapshot: the viewport's first row and a clone of the screen.
InstanceSnapshot(instance) ==
    ProcessSnapshotNew(instance.screen.base, instance.screen)

\* Process::snapshot.
ProcessSnapshot(process) ==
    IF process.instance_state = "Running"
    THEN InstanceSnapshot(instances[process.instance])
    ELSE ProcessSnapshotNew(0, NoScreen)

\* ProcessSnapshot::scroll_up: saturating_sub.
scroll_up(snap, lines) ==
    IF snap.screen = NoScreen THEN snap
    ELSE [snap EXCEPT !.line_index = IF @ > lines THEN @ - lines ELSE 0]

\* A scroll_down without the clamp to the viewport's first row.
scroll_downUnclamped(snap, lines) ==
    IF snap.screen = NoScreen THEN snap
    ELSE [snap EXCEPT !.line_index = @ + lines]

\* ProcessSnapshot::scroll_down: saturating_add, then min with phys_row(0).
scroll_down(snap, lines) ==
    IF snap.screen = NoScreen THEN snap
    ELSE [snap EXCEPT !.line_index = Min(@ + lines, snap.screen.base)]

\* ProcessSnapshot::scroll.
SnapshotScroll(snap, direction) ==
    IF snap.screen = NoScreen THEN snap
    ELSE LET page == snap.screen.physical_rows \div 2 IN
         CASE direction = "PageUp" -> scroll_up(snap, page)
           [] direction = "PageDown" -> scroll_down(snap, page)
           [] direction = "LineUp" -> scroll_up(snap, 1)
           [] OTHER -> scroll_down(snap, 1)

\* The rows [first, first + physical_rows) of a screen, as what is drawn.
ScreenLines(screen, first) == [screen |-> screen, first |-> first]
NoLines == ScreenLines(NoScreen, 0)

\* ProcessSnapshot::lines.
SnapshotLines(snap) ==
    IF snap.screen = NoScreen THEN NoLines
    ELSE ScreenLines(snap.screen, snap.line_index)

\* Process::lines: the instance's viewport, or no lines without an instance.
ProcessLines(process) ==
    IF process.instance_state = "Running"
    THEN ScreenLines(instances[process.instance].screen,
                     instances[process.instance].screen.base)
    ELSE NoLines

\* Process::cursor_position: "none", or "live" for the cursor of the instance's
\* terminal.
ProcessCursorPosition(process) ==
    IF ~is_running(to_status(process)) THEN "none"
    ELSE IF process.instance_state = "Running" THEN "live" ELSE "none"

\* Reading the focused process the way lines() ignoring the snapshot would.
linesIgnoringSnapshot ==
    IF FocusInRange THEN ProcessLines(processes[focused_process_index + 1])
    ELSE NoLines

\* Processes::lines; "panic" when the focus indexes no process.
lines ==
    IF snapshot.held THEN SnapshotLines(snapshot)
    ELSE IF FocusInRange THEN ProcessLines(processes[focused_process_index + 1])
    ELSE [screen |-> NoScreen, first |-> -1]

\* Processes::cursor_position.
cursor_position ==
    IF mode = "Forward" /\ FocusInRange
    THEN ProcessCursorPosition(processes[focused_process_index + 1])
    ELSE "none"

\* ------------------------------------------------------------------ modes
\* A call of the UI loop on Processes, the loop going on as next_ui.
UiCallThen(call, next_ui) ==
    /\ ~crashed
    /\ looping
    /\ lastCall' = call
    /\ ui' = next_ui
    /\ UNCHANGED <<after, looping, probe, lines_read>>

UiCall(call) == UiCallThen(call, ui)

UiStep == UiCall(NoCall)

\* A disable_autofocus that toggles.
disable_autofocusToggling == ~autofocus_enabled

\* Processes::disable_autofocus: the value autofocus_enabled takes.
disable_autofocus == FALSE

\* Processes::toggle_autofocus.
ToggleAutofocus ==
    /\ UiStep
    /\ autofocus_enabled' = ~autofocus_enabled
    /\ UNCHANGED <<processes, instances, focused_process_index, mode, snapshot,
                   pty_rows, crashed>>

\* Processes::forward_input_to_focused_process.
ForwardInputToFocusedProcess ==
    /\ UiStep
    /\ mode' = "Forward"
    /\ UNCHANGED <<processes, instances, focused_process_index, autofocus_enabled,
                   snapshot, pty_rows, crashed>>

\* Processes::enter_main_mode.
EnterMainMode ==
    /\ UiStep
    /\ mode' = "Main"
    /\ UNCHANGED <<processes, instances, focused_process_index, autofocus_enabled,
                   snapshot, pty_rows, crashed>>

\* The snapshot scroll() scrolls when it always takes a fresh one.
HeldOrCapturedAlwaysCaptured ==
    ProcessSnapshot(processes[focused_process_index + 1])

\* The snapshot scroll() scrolls: the one held, or one it takes of the focused
\* process.
HeldOrCaptured ==
    IF snapshot.held THEN snapshot
    ELSE ProcessSnapshot(processes[focused_process_index + 1])

\* A scroll that leaves the mode as it is.
ScrollKeepingMode(direction) ==
    /\ UiStep
    /\ IF snapshot.held \/ FocusInRange
       THEN /\ snapshot' = SnapshotScroll(HeldOrCaptured, direction)
            /\ UNCHANGED <<mode, crashed>>
       ELSE /\ crashed' = TRUE
            /\ UNCHANGED <<mode, snapshot>>
    /\ UNCHANGED <<processes, instances, focused_process_index, autofocus_enabled,
                   pty_rows>>

\* Processes::scroll; indexing out of range panics.
Scroll(direction) ==
    /\ UiStep
    /\ IF snapshot.held \/ FocusInRange
       THEN /\ mode' = "History"
            /\ snapshot' = SnapshotScroll(HeldOrCaptured, direction)
            /\ UNCHANGED crashed
       ELSE /\ crashed' = TRUE
            /\ UNCHANGED <<mode, snapshot>>
    /\ UNCHANGED <<processes, instances, focused_process_index, autofocus_enabled,
                   pty_rows>>

\* Processes::leave_history.
LeaveHistory ==
    /\ UiStep
    /\ mode' = "Main"
    /\ snapshot' = NoSnapshot
    /\ UNCHANGED <<processes, instances, focused_process_index, autofocus_enabled,
                   pty_rows, crashed>>

\* A resize that clears the screen.
InstanceResizeClearingScreen(instance, rows) ==
    [instance EXCEPT !.screen = [physical_rows |-> rows, base |-> 0, lines |-> 0]]

\* ProcessInstance::resize: the terminal takes the new number of rows; what
\* has scrolled off stays above the viewport.
InstanceResize(instance, rows) ==
    [instance EXCEPT !.screen.physical_rows = rows]

\* A resize that reaches the screen of the snapshot too.
ResizeReachingSnapshot(rows) ==
    /\ UiStep
    /\ rows # pty_rows
    /\ pty_rows' = rows
    /\ instances' = [i \in 1..Len(instances) |->
                        IF instances[i].rx_open
                        THEN InstanceResize(instances[i], rows)
                        ELSE instances[i]]
    /\ snapshot' = IF snapshot.held /\ snapshot.screen # NoScreen
                   THEN [snapshot EXCEPT !.screen.physical_rows = rows]
                   ELSE snapshot
    /\ UNCHANGED <<processes, focused_process_index, autofocus_enabled, mode, crashed>>

\* A Process::resize that resizes the instance without keeping the size.
ProcessResizeInstanceOnly(S, k, rows) ==
    [p |-> S.p,
     i |-> IF S.p[k].instance_state = "Running"
           THEN [S.i EXCEPT ![S.p[k].instance] = InstanceResize(@, rows)]
           ELSE S.i]

\* Process::resize on process k: the Process keeps the size for the instances
\* it starts later and resizes the instance it owns.
ProcessResize(S, k, rows) ==
    [p |-> [S.p EXCEPT ![k].pty_rows = rows],
     i |-> IF S.p[k].instance_state = "Running"
           THEN [S.i EXCEPT ![S.p[k].instance] = InstanceResize(@, rows)]
           ELSE S.i]

\* The loop of Processes::resize over the processes, from process k on.
RECURSIVE ResizeFrom(_, _, _)
ResizeFrom(S, k, rows) ==
    IF k > Len(S.p) THEN S ELSE ResizeFrom(ProcessResize(S, k, rows), k + 1, rows)

\* The instances whose resize the loop of Processes::resize calls.
ResizedInstances ==
    {processes[k].instance :
        k \in {j \in 1..Len(processes) : processes[j].instance_state = "Running"}}

\* Processes::resize: nothing when the size is pty_size; otherwise pty_size is
\* set and Process::resize is called for every process.
Resize(rows) ==
    /\ UiCall([Call("resize") EXCEPT
                  !.rows = rows,
                  !.resized = IF rows # pty_rows THEN ResizedInstances ELSE {}])
    /\ IF rows # pty_rows
       THEN LET S == ResizeFrom(Here, 1, rows) IN
            /\ pty_rows' = rows
            /\ processes' = S.p
            /\ instances' = S.i
       ELSE UNCHANGED <<pty_rows, processes, instances>>
    /\ UNCHANGED <<focused_process_index, autofocus_enabled, mode, snapshot, crashed>>

\* Processes::send_input, the UI loop going on as next_ui: the key is written
\* to the focused process's pty.
SendInputThen(next_ui) ==
    /\ UiCallThen(NoCall, next_ui)
    /\ UNCHANGED <<processes, instances, focused_process_index, autofocus_enabled,
                   mode, snapshot, pty_rows, crashed>>

\* Processes::send_input.
SendInput == SendInputThen(ui)

\* ------------------------------------------------------------------ keys
Keys == {"a", "Up", "Down", "PageUp", "PageDown", "r", "q", "Ctrl-e", "Ctrl-c", "x"}
NoEvent == "None"

\* A key map in which q leaves every mode.
read_key_eventLeavingWithQ(key_event, m) ==
    IF key_event = "q" THEN "LeaveHistory"
    ELSE IF m = "Forward" /\ key_event # "Ctrl-e" THEN "SendToFocusedProcess"
    ELSE NoEvent

\* read_key_event: the event a key makes in a mode.
read_key_event(key_event, m) ==
    CASE m = "Main" ->
            CASE key_event = "a" -> "ToggleAutofocus"
              [] key_event = "Up" -> "FocusProcessUp"
              [] key_event = "Down" -> "FocusProcessDown"
              [] key_event = "PageUp" -> "ScrollPageUp"
              [] key_event = "r" -> "RestartProcess"
              [] key_event = "Ctrl-e" -> "EnterProcess"
              [] key_event = "Ctrl-c" -> "Quit"
              [] OTHER -> NoEvent
      [] m = "Forward" ->
            CASE key_event = "Ctrl-e" -> "LeaveProcess"
              [] OTHER -> "SendToFocusedProcess"
      [] OTHER ->
            CASE key_event = "q" -> "LeaveHistory"
              [] key_event = "PageUp" -> "ScrollPageUp"
              [] key_event = "PageDown" -> "ScrollPageDown"
              [] key_event = "Up" -> "ScrollLineUp"
              [] key_event = "Down" -> "ScrollLineDown"
              [] OTHER -> NoEvent

\* The handler of FocusProcessUp / FocusProcessDown: disable_autofocus, then
\* move_focus_up / move_focus_down.
FocusProcess(up) ==
    /\ ~crashed
    /\ looping
    /\ autofocus_enabled' = disable_autofocus
    /\ IF up THEN FocusUp ELSE FocusDown
    /\ lastCall' = NoCall
    /\ UNCHANGED <<processes, instances, after, mode, snapshot, pty_rows, looping, probe, ui,
                   lines_read>>

\* The command an input event stands for.
HandleEvent(event) ==
    \/ event = "ToggleAutofocus" /\ ToggleAutofocus
    \/ event = "FocusProcessUp" /\ FocusProcess(TRUE)
    \/ event = "FocusProcessDown" /\ FocusProcess(FALSE)
    \/ event = "ScrollPageUp" /\ Scroll("PageUp")
    \/ event = "ScrollPageDown" /\ Scroll("PageDown")
    \/ event = "ScrollLineUp" /\ Scroll("LineUp")
    \/ event = "ScrollLineDown" /\ Scroll("LineDown")
    \/ event = "LeaveHistory" /\ LeaveHistory
    \/ event = "RestartProcess" /\ RestartFocused
    \/ event = "EnterProcess" /\ ForwardInputToFocusedProcess
    \/ event = "LeaveProcess" /\ EnterMainMode
    \/ event = "Quit" /\ StopAll
    \/ event = "SendToFocusedProcess" /\ SendInput

\* The UI loop's handling of one key: the event read_key_event makes of it in
\* the current mode, and that event's command.
KeyPress(key_event) ==
    /\ read_key_event(key_event, mode) # NoEvent
    /\ HandleEvent(read_key_event(key_event, mode))

\* ------------------------------------------------------------------ threads
ThreadStep(i, instance) ==
    /\ ~crashed
    /\ instances' = [instances EXCEPT ![i] = instance]
    /\ lastCall' = NoCall
    /\ UNCHANGED <<processes, after, focused_process_index, autofocus_enabled,
                   mode, snapshot, pty_rows, crashed, looping, probe, ui>>

\* A send that puts the status in front of those waiting.
SendInFront(instance, status) ==
    IF instance.rx_open
    THEN [instance EXCEPT !.chan = <<status>> \o @]
    ELSE instance

\* status_tx.send: the status is queued while the receiver exists, and dropped
\* (`let _ =`) once the Process has let go of the instance.
Send(instance, status) ==
    IF instance.rx_open
    THEN [instance EXCEPT !.chan = Append(@, status)]
    ELSE instance

\* A reader that gives every Success the index 0.
LineStatusFirstIndex(instance, kind) ==
    CASE kind = "running" -> StatusRunning
      [] kind = "success" -> StatusSuccess(instance.id, 0)
      [] OTHER -> StatusErrors(1)

\* The status the reader makes of one completed line of the given kind.
LineStatus(instance, kind) ==
    CASE kind = "running" -> StatusRunning
      [] kind = "success" -> StatusSuccess(instance.id, instance.next_success_index)
      [] OTHER -> StatusErrors(1)

\* Reader loop, a read of more than 0 bytes that completes one line, as the
\* foreground can tell it: the status is in the channel.  The lock, the screen
\* and the wake of the same loop body are in the reader taken step by step
\* (ReaderReadChunk and what follows it).
ReaderRead(i, kind) ==
    /\ i \in 1..Len(instances)
    /\ instances[i].reader = "reading"
    /\ kind # "blank" => lines_read < MaxLines
    /\ lines_read' = IF kind = "blank" THEN lines_read ELSE lines_read + 1
    /\ ThreadStep(i,
          IF kind = "blank" THEN instances[i]
          ELSE LET sent == Send(instances[i], LineStatus(instances[i], kind)) IN
               IF kind = "success"
               THEN [sent EXCEPT !.next_success_index = @ + 1]
               ELSE sent)

\* Reader loop, a read whose bytes complete no line the status is made of:
\* terminal.perform_actions scrolls the screen.
ReaderOutput(i) ==
    /\ i \in 1..Len(instances)
    /\ instances[i].reader = "reading"
    /\ instances[i].screen.base + ScrollPerOutput <= MaxScroll
    /\ ThreadStep(i, [instances[i] EXCEPT !.screen.base = @ + ScrollPerOutput])
    /\ UNCHANGED lines_read

\* Reader loop, read returns 0: the child has exited (of its own accord or on a
\* signal) with exit_code, and child_process.wait() reaps it; wait_ok says
\* whether wait gave the exit status (else the code is 1).
ReaderEof(i, exit_code, wait_ok) ==
    /\ i \in 1..Len(instances)
    /\ instances[i].reader = "reading"
    /\ ThreadStep(i, [instances[i] EXCEPT
            !.reader = "waited",
            !.child = "reaped",
            !.exit_code = IF wait_ok THEN exit_code ELSE 1])
    /\ UNCHANGED lines_read

\* has_terminated.store(true).
ReaderSetFlag(i) ==
    /\ i \in 1..Len(instances)
    /\ instances[i].reader = "waited"
    /\ ThreadStep(i, [instances[i] EXCEPT !.reader = "flagged", !.has_terminated = TRUE])
    /\ UNCHANGED lines_read

\* status_tx.send(Exited { exit_code }); on_change.wake(); break.
ReaderSendExited(i) ==
    /\ i \in 1..Len(instances)
    /\ instances[i].reader = "flagged"
    /\ ThreadStep(i, [Send(instances[i], StatusExited(instances[i].exit_code))
                        EXCEPT !.reader = "done"])
    /\ UNCHANGED lines_read

\* Kill timer: the sleep is over and the flag is read.
TimerCheck(i) ==
    /\ i \in 1..Len(instances)
    /\ instances[i].timer = "sleeping"
    /\ ThreadStep(i, [instances[i] EXCEPT
            !.timer = IF instances[i].has_terminated THEN "done" ELSE "armed"])
    /\ UNCHANGED lines_read

\* Kill timer: kill_sigkill(process_id).
TimerKill(i) ==
    /\ i \in 1..Len(instances)
    /\ instances[i].timer = "armed"
    /\ ThreadStep(i, [instances[i] EXCEPT !.timer = "done", !.sigkill = TRUE])
    /\ UNCHANGED lines_read

\* ------------------------------------------------------------------ spec
InitProcesses ==
    /\ processes = <<>>
    /\ instances = <<>>
    /\ after = [n \in Names |-> <<>>]
    /\ focused_process_index = 0
    /\ autofocus_enabled = TRUE
    /\ mode = "Main"
    /\ crashed = FALSE
    /\ looping = FALSE
    /\ lines_read = 0
    /\ lastCall = NoCall
    /\ snapshot = NoSnapshot
    /\ pty_rows = InitialRows
    /\ ui = UiAtPoll

Init ==
    /\ InitProcesses
    /\ probe = NoProbe

\* The configurations main registers, in order: an upstream called build with
\* the default autostart, then a process that runs after build: serve, with
\* the default autostart or started at once, or a second process called build.
ConfigsAt(process_index) ==
    {c \in ProcessConfigs :
        IF process_index = 1
        THEN c.name = "build" /\ c.after = NoName /\ c.autostart = "None"
        ELSE /\ c.after = "build"
             /\ \/ c.name = "serve" /\ c.autostart \in {"None", "Some(true)"}
                \/ c.name = "build" /\ c.autostart = "Some(true)"}

\* The instances a Process still holds (its variant is Running).
Owned(i) == i \in 1..Len(instances) /\ instances[i].rx_open

\* The supervisor as the foreground sees it: the calls of the UI loop, and the
\* children and readers of the instances some Process holds.  An instance a
\* Process has let go of is written by its own threads only and read by no
\* foreground call, so its threads are left to SpecKill.
Next ==
    \/ \E config \in ConfigsAt(Len(processes) + 1), ok \in BOOLEAN :
          Len(processes) < MaxProcs /\ StartProcess(config, ok)
    \/ EnterLoop
    \/ \E ok \in SUBSET (1..MaxProcs) : DoWork(ok)
    \/ StopAll
    \/ RestartFocused
    \/ MoveFocusUp
    \/ MoveFocusDown
    \/ \E i \in 1..MaxInstances, kind \in LineKinds : Owned(i) /\ ReaderRead(i, kind)
    \/ \E i \in 1..MaxInstances, exit_code \in ExitCodes, wait_ok \in BOOLEAN :
          Owned(i) /\ ReaderEof(i, exit_code, wait_ok)
    \/ \E i \in 1..MaxInstances : Owned(i) /\ ReaderSetFlag(i)
    \/ \E i \in 1..MaxInstances : Owned(i) /\ ReaderSendExited(i)

Spec == Init /\ [][Next]_vars

\* One process and every thread of every instance it has started, the kill
\* timers included.
NextKill ==
    \/ \E config \in ConfigsAt(1), ok \in BOOLEAN :
          Len(processes) < 1 /\ StartProcess(config, ok)
    \/ EnterLoop
    \/ \E ok \in SUBSET (1..MaxProcs) : DoWork(ok)
    \/ StopAll
    \/ RestartFocused
    \/ \E i \in 1..MaxInstances, kind \in LineKinds : ReaderRead(i, kind)
    \/ \E i \in 1..MaxInstances, exit_code \in ExitCodes, wait_ok \in BOOLEAN :
          ReaderEof(i, exit_code, wait_ok)
    \/ \E i \in 1..MaxInstances : ReaderSetFlag(i)
    \/ \E i \in 1..MaxInstances : ReaderSendExited(i)
    \/ \E i \in 1..MaxInstances : TimerCheck(i)
    \/ \E i \in 1..MaxInstances : TimerKill(i)

SpecKill == Init /\ [][NextKill]_vars

\* One process, its screen and the history mode: the keys that change the
\* mode and take, scroll and drop the snapshot, and the resizing of the window,
\* next to the output, the exit and the restart of the process.
HistoryEvents ==
    {"EnterProcess", "LeaveProcess", "ScrollPageUp", "ScrollPageDown",
     "ScrollLineUp", "ScrollLineDown", "LeaveHistory"}

NextHistory ==
    \/ \E config \in ConfigsAt(1), ok \in BOOLEAN :
          Len(processes) < 1 /\ StartProcess(config, ok)
    \/ EnterLoop
    \/ \E ok \in SUBSET (1..MaxProcs) : DoWork(ok)
    \/ RestartFocused
    \/ \E key_event \in Keys :
          /\ read_key_event(key_event, mode) \in HistoryEvents
          /\ KeyPress(key_event)
    \/ \E rows \in {InitialRows, ResizedRows} : Resize(rows)
    \/ \E i \in 1..MaxInstances : Owned(i) /\ ReaderOutput(i)
    \/ \E i \in 1..MaxInstances, exit_code \in ExitCodes, wait_ok \in BOOLEAN :
          Owned(i) /\ ReaderEof(i, exit_code, wait_ok)
    \/ \E i \in 1..MaxInstances : Owned(i) /\ ReaderSetFlag(i)
    \/ \E i \in 1..MaxInstances : Owned(i) /\ ReaderSendExited(i)

SpecHistory == Init /\ [][NextHistory]_vars

\* Two processes started at once, the focus and what moves it: the ticks, and
\* the keys that move the focus and switch autofocus and the mode.
FocusEvents ==
    {"ToggleAutofocus", "FocusProcessUp", "FocusProcessDown", "EnterProcess",
     "LeaveProcess", "SendToFocusedProcess"}

NextFocus ==
    \/ \E config \in ConfigsAt(Len(processes) + 1), ok \in BOOLEAN :
          /\ Len(processes) < MaxProcs
          /\ config.name = "serve" => config.autostart = "Some(true)"
          /\ StartProcess(config, ok)
    \/ EnterLoop
    \/ \E ok \in SUBSET (1..MaxProcs) : DoWork(ok)
    \/ \E key_event \in Keys :
          /\ read_key_event(key_event, mode) \in FocusEvents
          /\ KeyPress(key_event)
    \/ \E i \in 1..MaxInstances, kind \in LineKinds : Owned(i) /\ ReaderRead(i, kind)
    \/ \E i \in 1..MaxInstances, exit_code \in ExitCodes, wait_ok \in BOOLEAN :
          Owned(i) /\ ReaderEof(i, exit_code, wait_ok)
    \/ \E i \in 1..MaxInstances : Owned(i) /\ ReaderSetFlag(i)
    \/ \E i \in 1..MaxInstances : Owned(i) /\ ReaderSendExited(i)

SpecFocus == Init /\ [][NextFocus]_vars

\* Two processes and the resizes of the terminal: processes are registered,
\* spawned, restarted by hand and resized; their children exit.
NextResize ==
    \/ \E config \in ConfigsAt(Len(processes) + 1), ok \in BOOLEAN :
          Len(processes) < MaxProcs /\ StartProcess(config, ok)
    \/ EnterLoop
    \/ \E ok \in SUBSET (1..MaxProcs) : DoWork(ok)
    \/ RestartFocused
    \/ MoveFocusDown
    \/ \E rows \in {InitialRows, ResizedRows} : Resize(rows)
    \/ \E i \in 1..MaxInstances, exit_code \in ExitCodes, wait_ok \in BOOLEAN :
          Owned(i) /\ ReaderEof(i, exit_code, wait_ok)
    \/ \E i \in 1..MaxInstances : Owned(i) /\ ReaderSetFlag(i)
    \/ \E i \in 1..MaxInstances : Owned(i) /\ ReaderSendExited(i)

SpecResize == Init /\ [][NextResize]_vars

\* The commands of the supervisor called in any order, whatever the mode, on
\* two processes whose screens scroll.
NextCommands ==
    \/ \E config \in ConfigsAt(Len(processes) + 1), ok \in BOOLEAN :
          /\ Len(processes) < MaxProcs
          /\ config.name = "serve" => config.autostart = "Some(true)"
          /\ StartProcess(config, ok)
    \/ EnterLoop
    \/ \E ok \in SUBSET (1..MaxProcs) : DoWork(ok)
    \/ RestartFocused
    \/ MoveFocusUp
    \/ MoveFocusDown
    \/ ForwardInputToFocusedProcess
    \/ EnterMainMode
    \/ \E direction \in ScrollDirections : Scroll(direction)
    \/ LeaveHistory
    \/ \E i \in 1..MaxInstances : Owned(i) /\ ReaderOutput(i)

SpecCommands == Init /\ [][NextCommands]_vars

\* The configurations of a file in which `after` names a process that is not
\* configured: every process is called build; the first runs after serve, the
\* second after serve or after build.
ConfigsWithUnknownUpstreamAt(process_index) ==
    {c \in ProcessConfigs :
        /\ c.name = "build"
        /\ c.autostart \in {"None", "Some(true)"}
        /\ IF process_index = 1
           THEN c.after = "serve" /\ c.autostart = "Some(true)"
           ELSE c.after \in {"serve", "build"}}

NextUnknownUpstream ==
    \/ \E config \in ConfigsWithUnknownUpstreamAt(Len(processes) + 1), ok \in BOOLEAN :
          Len(processes) < MaxProcs /\ StartProcess(config, ok)
    \/ EnterLoop
    \/ \E ok \in SUBSET (1..MaxProcs) : DoWork(ok)
    \/ RestartFocused
    \/ MoveFocusDown
    \/ \E i \in 1..MaxInstances, kind \in LineKinds : Owned(i) /\ ReaderRead(i, kind)
    \/ \E i \in 1..MaxInstances, exit_code \in ExitCodes, wait_ok \in BOOLEAN :
          Owned(i) /\ ReaderEof(i, exit_code, wait_ok)
    \/ \E i \in 1..MaxInstances : Owned(i) /\ ReaderSetFlag(i)
    \/ \E i \in 1..MaxInstances : Owned(i) /\ ReaderSendExited(i)

SpecUnknownUpstream == Init /\ [][NextUnknownUpstream]_vars

\* ------------------------------------------------------------------ analyzer
\* A u64 is modelled CountBits wide: a number of 2 ^ CountBits or more does not
\* parse.
CountBits == 4
CountModulus == 2 ^ CountBits
MaxFocusLen == 3
MaxProbeTicks == 2

Digits == <<"0", "1", "2", "3", "4", "5", "6", "7", "8", "9">>
IsDigit(char) == \E d \in 1..Len(Digits) : Digits[d] = char
DigitValue(char) == (CHOOSE d \in 1..Len(Digits) : Digits[d] = char) - 1

RECURSIVE DigitsValue(_)
DigitsValue(chars) ==
    IF chars = <<>> THEN 0
    ELSE 10 * DigitsValue(SubSeq(chars, 1, Len(chars) - 1))
            + DigitValue(chars[Len(chars)])

\* No count: a capture that is absent or does not parse.
NoCount == -1

\* str::parse::<u64>: an optional "+", then one digit or more, of a value that
\* fits; anything else is an error (None after .ok()).
ParseCount(chars) ==
    LET digits == IF chars # <<>> /\ chars[1] = "+" THEN Tail(chars) ELSE chars IN
    IF /\ digits # <<>>
       /\ \A n \in 1..Len(digits) : IsDigit(digits[n])
       /\ DigitsValue(digits) < CountModulus
    THEN DigitsValue(digits)
    ELSE NoCount

\* What a line is to the analyzer: whether it trims to nothing, what the error
\* regex captures on it (NoMatch, NoGroup for a match without group 1, or the
\* text of group 1) and whether the success regex matches it.
NoMatch == <<"no match">>
NoGroup == <<"no group">>
Captured ==
    {<<>>, <<"0">>, <<"0", "0">>, <<"+", "0">>, <<"7">>, <<"1", "5">>, <<"9", "9", "9">>,
     <<"-", "0">>, <<"x">>, <<"0", "x">>}
AnalyzedLines ==
    [blank : BOOLEAN, error_regex : {NoMatch, NoGroup} \cup Captured,
     success_regex : BOOLEAN]
Analyzers == [success_regex : BOOLEAN, error_regex : BOOLEAN]

NoAnalysis == [tag |-> "None", error_count |-> NoCount]
LineAnalysis(tag, error_count) == [tag |-> tag, error_count |-> error_count]

\* An analyze_line that tries the success regex first.
analyze_lineSuccessFirst(analyzer, last_line) ==
    IF last_line.blank THEN NoAnalysis
    ELSE IF analyzer.success_regex /\ last_line.success_regex
    THEN LineAnalysis("Success", NoCount)
    ELSE IF analyzer.error_regex /\ last_line.error_regex # NoMatch
    THEN LET error_count == IF last_line.error_regex = NoGroup THEN NoCount
                            ELSE ParseCount(last_line.error_regex) IN
         IF error_count = 0 THEN LineAnalysis("Success", NoCount)
         ELSE LineAnalysis("Errors", error_count)
    ELSE LineAnalysis("Running", NoCount)

\* ProcessStatusAnalyzer::analyze_line.
analyze_line(analyzer, last_line) ==
    IF last_line.blank THEN NoAnalysis
    ELSE IF analyzer.error_regex /\ last_line.error_regex # NoMatch
    THEN LET error_count == IF last_line.error_regex = NoGroup THEN NoCount
                            ELSE ParseCount(last_line.error_regex) IN
         IF error_count = 0 THEN LineAnalysis("Success", NoCount)
         ELSE LineAnalysis("Errors", error_count)
    ELSE IF analyzer.success_regex /\ last_line.success_regex
    THEN LineAnalysis("Success", NoCount)
    ELSE LineAnalysis("Running", NoCount)

\* ------------------------------------------------------------------ functions
\* Every ProcessStatus value, with a few ids, counts and codes.
ProcessStatuses ==
    {StatusNotStarted, StatusStopped, StatusWaitingForUpstream, StatusFailedToStart,
     StatusRunning}
    \cup {StatusSuccess(id, index) : id \in 0..2, index \in 0..2}
    \cup {Status("Errors", count, 1) : count \in {NoCount, 0, 1, 2}}
    \cup {StatusExited(code) : code \in 0..3}

\* A move_focus_up that stops at index 0.
move_focus_upStopping(index, len) ==
    IF index > 0 THEN index - 1 ELSE 0

\* Processes::move_focus_up, as a function of the index and the length, in a
\* build where `len - 1` wraps.
move_focus_up(index, len) ==
    IF index > 0 THEN index - 1 ELSE (len - 1) % UsizeModulus

\* Processes::move_focus_down, as a function of the index and the length.
move_focus_down(index, len) ==
    IF index + 1 < len THEN index + 1 ELSE 0

Modes == {"Main", "Forward", "History"}

Probe(fn, in) == [fn |-> fn, in |-> in, done |-> FALSE, out |-> <<>>]

\* The calls the functions are tried on.
Probes ==
    {Probe("analyze_line", [analyzer |-> analyzer, last_line |-> last_line]) :
        analyzer \in Analyzers, last_line \in AnalyzedLines}
    \cup {Probe("status", status) : status \in ProcessStatuses}
    \cup {Probe("Process::new", [config |-> config, ok |-> ok]) :
            config \in ProcessConfigs, ok \in BOOLEAN}
    \cup {Probe("read_key_event", [key_event |-> key_event, mode |-> m]) :
            key_event \in Keys, m \in Modes}
    \cup {[fn |-> "move_focus", in |-> [len |-> len, moves |-> <<>>], done |-> FALSE,
           out |-> <<index>>] : len \in 1..MaxFocusLen, index \in 0..(MaxFocusLen - 1)}

InitPure ==
    /\ InitProcesses
    /\ probe \in Probes
    /\ probe.fn = "move_focus" => probe.out[1] < probe.in.len

Applied(fn, out) ==
    /\ probe.fn = fn
    /\ ~probe.done
    /\ probe' = [probe EXCEPT !.done = TRUE, !.out = out]
    /\ UNCHANGED <<processes, instances, after, focused_process_index,
                   autofocus_enabled, mode, snapshot, pty_rows, crashed, looping,
                   lines_read, lastCall, ui>>

AnalyzeLine ==
    Applied("analyze_line", analyze_line(probe.in.analyzer, probe.in.last_line))

StatusPredicates ==
    Applied("status", [is_success |-> is_success(probe.in),
                       is_failure |-> is_failure(probe.in),
                       is_running |-> is_running(probe.in)])

\* Process::new; out is the new process, and the process and its instances
\* after `ticks` calls of Process::do_work.
NewProcess ==
    Applied("Process::new",
            [new |-> ProcessNew(probe.in.config),
             S |-> [p |-> <<ProcessNew(probe.in.config)>>, i |-> <<>>],
             ticks |-> 0])

\* One more Process::do_work on the process of the probe.
NewProcessDoWork ==
    /\ probe.fn = "Process::new"
    /\ probe.done
    /\ probe.out.ticks < MaxProbeTicks
    /\ probe' = [probe EXCEPT
            !.out.S = ProcessDoWork(@, 1, probe.in.ok),
            !.out.ticks = @ + 1]
    /\ UNCHANGED <<processes, instances, after, focused_process_index,
                   autofocus_enabled, mode, snapshot, pty_rows, crashed, looping,
                   lines_read, lastCall, ui>>

ReadKeyEvent ==
    Applied("read_key_event", read_key_event(probe.in.key_event, probe.in.mode))

\* One more move_focus_up or move_focus_down on a list of probe.in.len
\* processes; out is the focus before and after every move so far.
MoveFocus(up) ==
    /\ probe.fn = "move_focus"
    /\ Len(probe.in.moves) < MaxFocusLen
    /\ probe' = [probe EXCEPT
            !.in.moves = Append(@, IF up THEN "up" ELSE "down"),
            !.out = Append(@, IF up
                              THEN move_focus_up(@[Len(@)], probe.in.len)
                              ELSE move_focus_down(@[Len(@)], probe.in.len))]
    /\ UNCHANGED <<processes, instances, after, focused_process_index,
                   autofocus_enabled, mode, snapshot, pty_rows, crashed, looping,
                   lines_read, lastCall, ui>>

NextPure ==
    \/ AnalyzeLine
    \/ StatusPredicates
    \/ NewProcess
    \/ NewProcessDoWork
    \/ ReadKeyEvent
    \/ MoveFocus(TRUE)
    \/ MoveFocus(FALSE)

SpecPure == InitPure /\ [][NextPure]_vars

\* ------------------------------------------------------------------ reader loop
\* The bytes a child writes: letters, a space, the line boundaries, and ESC,
\* which followed by c is a full reset.
Bytes == {"o", "k", "c", " ", "LF", "CR", "ESC"}
MaxStream == 4
Streams == UNION {[1..n -> Bytes] : n \in 1..MaxStream}

Printable(byte) == byte \in {"o", "k", "c", " "}

\* The printable run the parser has gathered becomes one action.
FlushRun(run, actions) ==
    IF run = <<>> THEN actions
    ELSE Append(actions, [kind |-> IF Len(run) = 1 THEN "Print" ELSE "PrintString",
                          text |-> run])

\* The action of a control byte.
ControlAction(byte) ==
    [kind |-> IF byte = "LF" THEN "LineFeed" ELSE "CarriageReturn", text |-> <<>>]

\* Parser::parse on one chunk, from byte n on.  The state of the parser, which
\* it remembers from one call to the next, is ground, escape (after ESC) or
\* intermediate (after ESC and a space): a control byte is executed in every
\* state, ESC opens a sequence anew, a space after ESC is an intermediate, and
\* a letter ends the sequence, ESC c being the full reset.
RECURSIVE Parse(_, _, _, _, _)
Parse(bytes, n, esc, run, actions) ==
    IF n > Len(bytes)
    THEN [esc |-> esc, actions |-> FlushRun(run, actions)]
    ELSE LET byte == bytes[n] IN
         CASE byte = "ESC" ->
                  Parse(bytes, n + 1, "escape", <<>>, FlushRun(run, actions))
           [] byte \in {"LF", "CR"} ->
                  Parse(bytes, n + 1, esc, <<>>,
                        Append(FlushRun(run, actions), ControlAction(byte)))
           [] esc = "ground" ->
                  Parse(bytes, n + 1, esc, Append(run, byte), actions)
           [] byte = " " ->
                  Parse(bytes, n + 1, "intermediate", <<>>, actions)
           [] OTHER ->
                  Parse(bytes, n + 1, "ground", <<>>,
                        Append(actions,
                               [kind |-> IF esc = "escape" /\ byte = "c"
                                         THEN "FullReset" ELSE "Other",
                                text |-> <<>>]))

\* The analyzer of the reader: the success regex is "ok", the error regex
\* "c" (no group); what the regexes make of a line.
ReaderAnalyzer == [success_regex |-> TRUE, error_regex |-> TRUE]
LineOf(text) ==
    [blank |-> \A n \in 1..Len(text) : text[n] = " ",
     error_regex |-> IF \E n \in 1..Len(text) : text[n] = "c" THEN NoGroup ELSE NoMatch,
     success_regex |-> \E n \in 1..(Len(text) - 1) : text[n] = "o" /\ text[n + 1] = "k"]

\* The reader's variables before its loop.
NewReader == [esc |-> "ground", last_line |-> <<>>, next_success_index |-> 0, sent |-> <<>>]

\* The arm of LineFeed, CarriageReturn and FullReset: the line is analysed,
\* the status of the analysis sent, and the line cleared.
FlushLine(reader) ==
    LET line_analysis == analyze_line(ReaderAnalyzer, LineOf(reader.last_line)) IN
    CASE line_analysis = NoAnalysis -> [reader EXCEPT !.last_line = <<>>]
      [] line_analysis.tag = "Running" ->
            [reader EXCEPT !.last_line = <<>>, !.sent = Append(@, StatusRunning)]
      [] line_analysis.tag = "Success" ->
            [reader EXCEPT !.last_line = <<>>,
                           !.sent = Append(@, StatusSuccess(0, reader.next_success_index)),
                           !.next_success_index = @ + 1]
      [] OTHER ->
            [reader EXCEPT !.last_line = <<>>,
                           !.sent = Append(@, StatusErrors(line_analysis.error_count))]

\* The loop over the actions of one chunk, from action n on.
RECURSIVE MirrorActions(_, _, _)
MirrorActions(reader, actions, n) ==
    IF n > Len(actions) THEN reader
    ELSE LET action == actions[n] IN
         MirrorActions(
             CASE action.kind \in {"Print", "PrintString"} ->
                      [reader EXCEPT !.last_line = @ \o action.text]
               [] action.kind \in {"LineFeed", "CarriageReturn", "FullReset"} ->
                      FlushLine(reader)
               [] OTHER -> reader,
             actions, n + 1)

\* A loop body that starts every chunk with an empty line.
ReadChunkFreshLine(reader, chunk) ==
    LET parsed == Parse(chunk, 1, reader.esc, <<>>, <<>>) IN
    MirrorActions([reader EXCEPT !.esc = parsed.esc, !.last_line = <<>>],
                  parsed.actions, 1)

\* One pass of the reader's loop over a chunk of more than 0 bytes, as far as
\* the line and the statuses go.
ReadChunk(reader, chunk) ==
    LET parsed == Parse(chunk, 1, reader.esc, <<>>, <<>>) IN
    MirrorActions([reader EXCEPT !.esc = parsed.esc], parsed.actions, 1)

\* A stream and the places where one read ends and the next begins.
ReaderProbes ==
    {[fn |-> "reader", in |-> [bytes |-> bytes, cuts |-> cuts], done |-> FALSE,
      out |-> [reader |-> NewReader, at |-> 0]] :
        bytes \in Streams, cuts \in SUBSET (1..(MaxStream - 1))}

InitChunks ==
    /\ InitProcesses
    /\ probe \in ReaderProbes
    /\ \A cut \in probe.in.cuts : cut < Len(probe.in.bytes)

\* Where the read that begins after byte `at` ends.
NextCut(at) ==
    LET later == {cut \in probe.in.cuts : cut > at} IN
    IF later = {} THEN Len(probe.in.bytes)
    ELSE CHOOSE cut \in later : \A other \in later : cut <= other

\* reader.read returns the next chunk and the loop body runs on it.
ReadNextChunk ==
    /\ probe.fn = "reader"
    /\ ~probe.done
    /\ LET next == NextCut(probe.out.at)
           chunk == SubSeq(probe.in.bytes, probe.out.at + 1, next) IN
       probe' = [probe EXCEPT !.out = [reader |-> ReadChunk(probe.out.reader, chunk),
                                       at |-> next],
                              !.done = next = Len(probe.in.bytes)]
    /\ UNCHANGED <<processes, instances, after, focused_process_index,
                   autofocus_enabled, mode, snapshot, pty_rows, crashed, looping,
                   lines_read, lastCall, ui>>

NextChunks == ReadNextChunk

SpecChunks == InitChunks /\ [][NextChunks]_vars

\* One process and everything that reaches its instance: the foreground calls
\* that end in resize, send_input, snapshot and kill, the ticks, and the
\* reader's output and exit.
ScreenEvents == HistoryEvents \cup {"SendToFocusedProcess"}

NextScreen ==
    \/ \E config \in ConfigsAt(1), ok \in BOOLEAN :
          Len(processes) < 1 /\ StartProcess(config, ok)
    \/ EnterLoop
    \/ \E ok \in SUBSET {1} : DoWork(ok)
    \/ RestartFocused
    \/ StopAll
    \/ \E key_event \in Keys :
          /\ read_key_event(key_event, mode) \in ScreenEvents
          /\ KeyPress(key_event)
    \/ \E rows \in {InitialRows, ResizedRows} : Resize(rows)
    \/ \E i \in 1..MaxInstances : Owned(i) /\ ReaderOutput(i)
    \/ \E i \in 1..MaxInstances, exit_code \in ExitCodes, wait_ok \in BOOLEAN :
          Owned(i) /\ ReaderEof(i, exit_code, wait_ok)
    \/ \E i \in 1..MaxInstances : Owned(i) /\ ReaderSetFlag(i)
    \/ \E i \in 1..MaxInstances : Owned(i) /\ ReaderSendExited(i)

SpecScreen == Init /\ [][NextScreen]_vars

\* ------------------------------------------------------- reader, step by step
\* The reader's loop body one call at a time, next to the UI loop one call at
\* a time: a read gives a chunk whose actions complete up to MaxChunk lines;
\* each line is analyzed and its status sent; then the terminal is locked, the
\* actions are performed on it, the UI is woken, and the lock is released
\* where the loop body ends.
MaxChunk == 2
Chunks == UNION {[1..n -> LineKinds] : n \in 0..MaxChunk}

\* A wake that does not reach the UI.
WakingStepLosingWake(i, instance) ==
    /\ ~crashed
    /\ instances' = [instances EXCEPT ![i] = instance]
    /\ lastCall' = NoCall
    /\ UNCHANGED <<processes, after, focused_process_index, autofocus_enabled,
                   mode, snapshot, pty_rows, crashed, looping, probe, ui>>

\* A step of a thread of instance i that calls on_change.wake().
WakingStep(i, instance) ==
    /\ ~crashed
    /\ instances' = [instances EXCEPT ![i] = instance]
    /\ ui' = [ui EXCEPT !.wake = TRUE]
    /\ lastCall' = NoCall
    /\ UNCHANGED <<processes, after, focused_process_index, autofocus_enabled,
                   mode, snapshot, pty_rows, crashed, looping, probe>>

\* reader.read gives more than 0 bytes and parser.parse their actions.
ReaderReadChunk(i, chunk) ==
    /\ i \in 1..Len(instances)
    /\ instances[i].reader = "reading"
    /\ lines_read + Len(chunk) <= MaxLines
    /\ lines_read' = lines_read + Len(chunk)
    /\ ThreadStep(i, [instances[i] EXCEPT
            !.reader = "parsed", !.chunk = Len(chunk), !.pending = chunk])

\* One turn of `for action in &actions` that ends a line: analyze_line, and
\* status_tx.send unless the line is blank.
ReaderAnalyzeLine(i) ==
    /\ i \in 1..Len(instances)
    /\ instances[i].reader = "parsed"
    /\ instances[i].pending # <<>>
    /\ LET kind == Head(instances[i].pending)
           line == instances[i].analyzed + 1
           taken == [instances[i] EXCEPT !.pending = Tail(@), !.analyzed = line]
           sent == [Send(taken, LineStatus(instances[i], kind)) EXCEPT
                       !.last_sent_line = line]
       IN ThreadStep(i, CASE kind = "blank" -> taken
                          [] kind = "success" -> [sent EXCEPT !.next_success_index = @ + 1]
                          [] OTHER -> sent)
    /\ UNCHANGED lines_read

\* terminal.lock(): the reader waits until nobody holds the terminal.
ReaderLock(i) ==
    /\ i \in 1..Len(instances)
    /\ instances[i].reader = "parsed"
    /\ instances[i].pending = <<>>
    /\ ~instances[i].terminal_locked
    /\ ThreadStep(i, [instances[i] EXCEPT !.reader = "locked", !.terminal_locked = TRUE])
    /\ UNCHANGED lines_read

\* terminal_locked.perform_actions(actions).
ReaderPerform(i) ==
    /\ i \in 1..Len(instances)
    /\ instances[i].reader = "locked"
    /\ ThreadStep(i, [instances[i] EXCEPT
            !.reader = "performed",
            !.screen.lines = @ + instances[i].chunk])
    /\ UNCHANGED lines_read

\* on_change.wake(), terminal_locked still in scope.
ReaderWake(i) ==
    /\ i \in 1..Len(instances)
    /\ instances[i].reader = "performed"
    /\ WakingStep(i, [instances[i] EXCEPT !.reader = "woken"])
    /\ UNCHANGED lines_read

\* A loop body whose end keeps the lock.
ReaderUnlockKeepingLock(i) ==
    /\ i \in 1..Len(instances)
    /\ instances[i].reader = "woken"
    /\ ThreadStep(i, [instances[i] EXCEPT !.reader = "reading", !.chunk = 0])
    /\ UNCHANGED lines_read

\* The loop body ends: terminal_locked is dropped, and the reader reads again.
ReaderUnlock(i) ==
    /\ i \in 1..Len(instances)
    /\ instances[i].reader = "woken"
    /\ ThreadStep(i, [instances[i] EXCEPT
            !.reader = "reading", !.chunk = 0, !.terminal_locked = FALSE])
    /\ UNCHANGED lines_read

\* A reader that sends Exited without having set the flag.
ReaderSendExitUnflagged(i) ==
    /\ i \in 1..Len(instances)
    /\ instances[i].reader \in {"waited", "flagged"}
    /\ ThreadStep(i, [Send(instances[i], StatusExited(instances[i].exit_code))
                        EXCEPT !.reader = "exited"])
    /\ UNCHANGED lines_read

\* status_tx.send(Exited { exit_code }).
ReaderSendExit(i) ==
    /\ i \in 1..Len(instances)
    /\ instances[i].reader = "flagged"
    /\ ThreadStep(i, [Send(instances[i], StatusExited(instances[i].exit_code))
                        EXCEPT !.reader = "exited"])
    /\ UNCHANGED lines_read

\* on_change.wake(); break.
ReaderWakeExit(i) ==
    /\ i \in 1..Len(instances)
    /\ instances[i].reader = "exited"
    /\ WakingStep(i, [instances[i] EXCEPT !.reader = "done"])
    /\ UNCHANGED lines_read

\* ------------------------------------------------------- UI loop, call by call
\* The loop of main: poll_input blocks until a key, a resize or a wake; the
\* command of the event is called; then do_work; then the screen is rendered
\* from lines() and cursor_position(), which lock the focused terminal.
AtPoll == ui.at = "poll_input"

\* The terminals a call locks are free.
Unlocked(indices) == \A i \in indices : ~instances[i].terminal_locked

\* The instance of the focused process, if it has one.
FocusedInstances ==
    IF FocusInRange /\ processes[focused_process_index + 1].instance_state = "Running"
    THEN {processes[focused_process_index + 1].instance}
    ELSE {}

\* poll_input returns because of a wake: Ok(None), no command.
PollWake ==
    /\ ~crashed
    /\ looping
    /\ AtPoll
    /\ ui.wake
    /\ ui' = [at |-> "do_work", wake |-> FALSE]
    /\ lastCall' = NoCall
    /\ UNCHANGED <<processes, instances, after, focused_process_index,
                   autofocus_enabled, mode, snapshot, pty_rows, crashed, looping,
                   lines_read, probe>>

\* poll_input returns a key that has no command in the current mode.
PollKey ==
    /\ ~crashed
    /\ looping
    /\ AtPoll
    /\ ui' = [ui EXCEPT !.at = "do_work"]
    /\ lastCall' = NoCall
    /\ UNCHANGED <<processes, instances, after, focused_process_index,
                   autofocus_enabled, mode, snapshot, pty_rows, crashed, looping,
                   lines_read, probe>>

\* poll_input returns the restart key: restart_focused.
PollRestart ==
    /\ AtPoll
    /\ RestartFocusedThen([ui EXCEPT !.at = "do_work"])

\* poll_input returns a key for the focused process: send_input, which locks
\* its terminal.
PollSendInput ==
    /\ AtPoll
    /\ Unlocked(FocusedInstances)
    /\ SendInputThen([ui EXCEPT !.at = "do_work"])

\* do_work, once per turn of the loop.
TickDoWork(ok) ==
    /\ ui.at = "do_work"
    /\ DoWorkThen(ok, [ui EXCEPT !.at = "render"])

\* render: lines() and cursor_position() lock the focused terminal, read it
\* and let go of it.
Render ==
    /\ ~crashed
    /\ looping
    /\ ui.at = "render"
    /\ Unlocked(FocusedInstances)
    /\ ui' = [ui EXCEPT !.at = "poll_input"]
    /\ lastCall' = Call("render")
    /\ UNCHANGED <<processes, instances, after, focused_process_index,
                   autofocus_enabled, mode, snapshot, pty_rows, crashed, looping,
                   lines_read, probe>>

\* The steps of the reader of instance i that wait for nothing but, at
\* terminal.lock(), the UI loop.
ReaderSteps(i) ==
    \/ ReaderAnalyzeLine(i)
    \/ ReaderLock(i)
    \/ ReaderPerform(i)
    \/ ReaderWake(i)
    \/ ReaderUnlock(i)
    \/ ReaderSetFlag(i)
    \/ ReaderSendExit(i)
    \/ ReaderWakeExit(i)

\* One process, the UI loop call by call, and the reader of the instance the
\* process holds, step by step.
NextThreads ==
    \/ \E config \in ConfigsAt(1) : Len(processes) < 1 /\ StartProcess(config, TRUE)
    \/ EnterLoop
    \/ PollWake
    \/ PollSendInput
    \/ PollKey
    \/ PollRestart
    \/ \E ok \in SUBSET {1} : TickDoWork(ok)
    \/ Render
    \/ \E i \in 1..MaxInstances, chunk \in Chunks : Owned(i) /\ ReaderReadChunk(i, chunk)
    \/ \E i \in 1..MaxInstances, exit_code \in ExitCodes, wait_ok \in BOOLEAN :
          Owned(i) /\ ReaderEof(i, exit_code, wait_ok)
    \/ \E i \in 1..MaxInstances : Owned(i) /\ ReaderAnalyzeLine(i)
    \/ \E i \in 1..MaxInstances : Owned(i) /\ ReaderLock(i)
    \/ \E i \in 1..MaxInstances : Owned(i) /\ ReaderPerform(i)
    \/ \E i \in 1..MaxInstances : Owned(i) /\ ReaderWake(i)
    \/ \E i \in 1..MaxInstances : Owned(i) /\ ReaderUnlock(i)
    \/ \E i \in 1..MaxInstances : Owned(i) /\ ReaderSetFlag(i)
    \/ \E i \in 1..MaxInstances : Owned(i) /\ ReaderSendExit(i)
    \/ \E i \in 1..MaxInstances : Owned(i) /\ ReaderWakeExit(i)

SpecThreads == Init /\ [][NextThreads]_vars

\* The same with the scheduling the threads have: main goes on to its loop, a
\* thread that can take a step takes it, a pending wake is returned by
\* poll_input although keys arrive, and the UI loop gets the terminal's lock
\* although the reader takes it again and again.  Reads and keys are awaited.
FairThreads ==
    /\ WF_vars(EnterLoop)
    /\ SF_vars(PollWake)
    /\ WF_vars(\E ok \in SUBSET {1} : TickDoWork(ok))
    /\ SF_vars(Render)
    /\ \A i \in 1..MaxInstances : WF_vars(Owned(i) /\ ReaderSteps(i))

SpecThreadsFair == Init /\ [][NextThreads]_vars /\ FairThreads

\* ------------------------------------------------------------------ claims
ProcessInstanceStates ==
    {"NotStarted", "Stopped", "WaitingForUpstream", "PendingRestart", "FailedToStart",
     "Running"}

ProcessIndices == 1..Len(processes)
InstanceIndices == 1..Len(instances)

\* The step is a do_work tick.
Tick == lastCall'.op = "do_work"

\* Process u has statuses waiting in its channel: the next tick drains them.
Drains(u) ==
    /\ processes[u].instance_state = "Running"
    /\ instances[processes[u].instance].chan # <<>>

Window(u) == instances[processes[u].instance].chan
NewStatus(u) == Window(u)[Len(Window(u))]

\* The processes the `after` table lists under the name of u.
DownstreamsOf(u) ==
    {after[processes[u].name][n] : n \in 1..Len(after[processes[u].name])}

\* No other process bearing the name of u has statuses waiting.
SoleReporter(u) ==
    \A v \in ProcessIndices :
        (v # u /\ processes[v].name = processes[u].name) => ~Drains(v)

\* After the step, d has been restarted (a fresh instance, or a failed spawn).
RestartedInStep(d) ==
    \/ /\ processes'[d].instance_state = "Running"
       /\ processes'[d].instance > Len(instances)
    \/ processes'[d].instance_state = "FailedToStart"

\* After the step, d waits for its upstream and has no instance.
ParkedInStep(d) ==
    /\ processes'[d].instance_state = "WaitingForUpstream"
    /\ processes'[d].instance = NoInstance

\* How many restart() calls the upstream u caused on d in a tick's log.
RestartsFrom(u, d, applied) ==
    Cardinality({n \in 1..Len(applied) :
        applied[n] = [upstream |-> u, action |-> "Restart", downstream |-> d]})

SuccessesIn(window) ==
    Cardinality({n \in 1..Len(window) : window[n].tag = "Success"})

\* C1: a Process that is Stopped stays Stopped across every step, the
\* dependency actions of do_work included; only restart_focused on that very
\* process takes it out of Stopped.
C1_StoppedUntilExplicitRestart ==
    [][\A k \in ProcessIndices :
          (processes[k].instance_state = "Stopped"
               /\ processes'[k].instance_state # "Stopped")
          => (lastCall'.op = "restart_focused" /\ focused_process_index + 1 = k)]_vars

\* C2: a Process never lets go of an instance (and its status channel) before
\* the foreground has drained that instance's Exited: a kill keeps the
\* instance until then.
C2_InstanceKeptUntilExitedDrained ==
    [][\A i \in InstanceIndices :
          (instances[i].rx_open /\ ~instances'[i].rx_open)
          => instances'[i].exited_drained]_vars

\* C3: start() is never called for a process while the Exited of an earlier
\* instance of it has not been drained: whenever a process has started a later
\* instance, every earlier one has had its Exited drained.
C3_NoStartBeforeExitedDrained ==
    \A i, j \in InstanceIndices :
        (i < j /\ instances[i].process = instances[j].process)
        => instances[i].exited_drained

\* C4 as stated: in a tick, every downstream of an upstream whose newly
\* observed status is a success is restarted (Running on a fresh instance by
\* the end of the tick, or FailedToStart if the spawn fails), and every
\* downstream of an upstream whose newly observed status is no success waits
\* for its upstream with no instance.
C4_EveryUpstreamDecides ==
    [][Tick =>
          \A u \in ProcessIndices : Drains(u) =>
              \A d \in DownstreamsOf(u) :
                  IF is_success(NewStatus(u)) THEN RestartedInStep(d) ELSE ParkedInStep(d)]_vars

\* C4 amended: the same, for an upstream that is the only process of its name
\* to observe a new status in the tick.
C4_SoleUpstreamDecides ==
    [][Tick =>
          \A u \in ProcessIndices : (Drains(u) /\ SoleReporter(u)) =>
              \A d \in DownstreamsOf(u) :
                  IF is_success(NewStatus(u)) THEN RestartedInStep(d) ELSE ParkedInStep(d)]_vars

\* A tick has just restarted a downstream of another process, which is Running.
C4_Witness ==
    /\ lastCall.op = "do_work"
    /\ \E n \in 1..Len(lastCall.applied) :
          /\ lastCall.applied[n].action = "Restart"
          /\ lastCall.applied[n].upstream # lastCall.applied[n].downstream
          /\ processes[lastCall.applied[n].downstream].instance_state = "Running"

\* C5: a tick makes no restart() or mark_waiting_for_upstream() call on behalf
\* of an upstream whose newly observed status is value-equal to the status it
\* observed before.
C5_NoActionForEqualStatus ==
    [][Tick =>
          \A u \in ProcessIndices :
              (Drains(u) /\ processes[u].observed /\ NewStatus(u) = processes[u].status)
              => \A n \in 1..Len(lastCall'.applied) : lastCall'.applied[n].upstream # u]_vars

\* C6 as stated: every Success an upstream sends restarts each of its
\* downstreams once, so a tick makes as many restart() calls per downstream as
\* it drains Success statuses.
C6_OneRestartPerSuccessSent ==
    [][Tick =>
          \A u \in ProcessIndices : Drains(u) =>
              \A d \in DownstreamsOf(u) :
                  RestartsFrom(u, d, lastCall'.applied) = SuccessesIn(Window(u))]_vars

\* C6 amended: every tick that observes a success as the last status of its
\* drain restarts each downstream once, so two successive Success statuses
\* observed by two ticks restart it twice; whatever else the drain held causes
\* no restart.
C6_OneRestartPerSuccessObserved ==
    [][Tick =>
          \A u \in ProcessIndices : Drains(u) =>
              \A d \in DownstreamsOf(u) :
                  RestartsFrom(u, d, lastCall'.applied)
                      = IF is_success(NewStatus(u)) THEN 1 ELSE 0]_vars

\* A tick has just drained the second Success of an instance on its own (the
\* first was drained by an earlier tick) and restarted a downstream for it.
C6_Witness ==
    /\ lastCall.op = "do_work"
    /\ \E m \in 1..Len(lastCall.drained), n \in 1..Len(lastCall.applied) :
          /\ Len(lastCall.drained[m].window) = 1
          /\ lastCall.drained[m].window[1].tag = "Success"
          /\ lastCall.drained[m].window[1].b = 1
          /\ lastCall.applied[n].upstream = lastCall.drained[m].process
          /\ lastCall.applied[n].action = "Restart"

\* build and serve have just been registered, in this order.
JustRegisteredBuildAndServe ==
    /\ lastCall.op = "start_process"
    /\ Len(processes) = 2
    /\ processes[1].name = "build" /\ processes[1].after = NoName
    /\ processes[2].name = "serve" /\ processes[2].after = "build"

\* C7 as stated: once build and serve are registered and build is Running,
\* serve is in WaitingForUpstream with no child.
C7_ServeWaitsForUpstream ==
    (JustRegisteredBuildAndServe /\ processes[1].instance_state = "Running")
    => /\ processes[2].instance_state = "WaitingForUpstream"
       /\ processes[2].instance = NoInstance

\* C7 amended: once build and serve are registered, build is Running (or
\* FailedToStart), serve with autostart unset is NotStarted with no child and
\* serve with autostart true has been spawned; and a tick spawns a serve that is
\* NotStarted or WaitingForUpstream only when build newly reports a success.
C7_ServeNotStarted ==
    /\ [](JustRegisteredBuildAndServe =>
            /\ processes[1].instance_state \in {"Running", "FailedToStart"}
            /\ processes[2].autostart = "None" =>
                  /\ processes[2].instance_state = "NotStarted"
                  /\ processes[2].instance = NoInstance
            /\ processes[2].autostart = "Some(true)" =>
                  processes[2].instance_state \in {"Running", "FailedToStart"})
    /\ [][(/\ Tick
           /\ Len(processes) = 2
           /\ processes[2].name = "serve"
           /\ processes[2].instance_state \in {"NotStarted", "WaitingForUpstream"}
           /\ processes'[2].instance_state \in {"PendingRestart", "Running", "FailedToStart"})
          => (Drains(1) /\ is_success(NewStatus(1)))]_vars

\* build is Running and serve, with autostart unset, has just been registered.
C7_Witness ==
    /\ JustRegisteredBuildAndServe
    /\ processes[1].instance_state = "Running"
    /\ processes[2].autostart = "None"
    /\ processes[2].instance_state = "NotStarted"

\* C8: no process is Stopped while the child of one of its instances is still
\* alive.
C8_NotStoppedWhileChildAlive ==
    \A k \in ProcessIndices :
        is_stopped(processes[k]) =>
            \A i \in InstanceIndices :
                instances[i].process = k => instances[i].child # "alive"

\* C9 as stated: a Process owns an instance whose child it has not yet observed
\* as exited if and only if its variant is Running.
C9_LiveInstanceIffRunning ==
    \A k \in ProcessIndices :
        (/\ processes[k].instance # NoInstance
         /\ ~instances[processes[k].instance].exited_drained)
        <=> processes[k].instance_state = "Running"

\* C9 amended: each Process holds one of the variants, and it owns an instance
\* (whose child it may already have observed as exited) if and only if the
\* variant is Running; the instance it owns is its own, with the receiver of
\* its channel, and no other instance has a receiver.
C9_InstanceIffRunning ==
    /\ \A k \in ProcessIndices :
          /\ processes[k].instance_state \in ProcessInstanceStates
          /\ processes[k].instance # NoInstance <=> processes[k].instance_state = "Running"
          /\ processes[k].instance # NoInstance =>
                /\ processes[k].instance \in InstanceIndices
                /\ instances[processes[k].instance].process = k
                /\ instances[processes[k].instance].rx_open
    /\ \A i \in InstanceIndices :
          instances[i].rx_open => processes[instances[i].process].instance = i

\* A Running process that has observed its child's exit still owns the
\* instance, while another process has been killed and owns none.
C9_Witness ==
    \E k, j \in ProcessIndices :
        /\ processes[k].instance_state = "Running"
        /\ processes[k].status.tag = "Exited"
        /\ processes[k].instance # NoInstance
        /\ processes[j].instance_state = "Stopped"
        /\ \E i \in InstanceIndices : instances[i].process = j

\* C10: a kill() of an instance whose flag is not set sends SIGTERM and starts
\* the kill timer, and a kill() of one whose flag is set does neither; when the
\* timer fires it sends SIGKILL unless it reads the flag as set, in which case
\* no SIGKILL is ever sent; SIGKILL is never sent without the SIGTERM of the
\* same kill().
C10_KillEscalation ==
    /\ [](\A i \in InstanceIndices :
            /\ instances[i].sigkill => instances[i].sigterm
            /\ instances[i].sigterm <=> instances[i].timer # "none"
            /\ instances[i].sigkill => instances[i].timer = "done"
            /\ (instances[i].timer = "done" /\ ~instances[i].sigkill)
                  => instances[i].has_terminated)
    /\ [][\A i \in InstanceIndices :
            /\ (instances[i].rx_open /\ ~instances'[i].rx_open) =>
                  IF instances[i].has_terminated
                  THEN ~instances'[i].sigterm /\ instances'[i].timer = "none"
                  ELSE instances'[i].sigterm /\ instances'[i].timer = "sleeping"
            /\ (instances[i].timer = "sleeping" /\ instances'[i].timer # "sleeping") =>
                  IF instances[i].has_terminated
                  THEN instances'[i].timer = "done" /\ ~instances'[i].sigkill
                  ELSE instances'[i].timer = "armed"
            /\ (instances[i].timer = "armed" /\ instances'[i].timer # "armed") =>
                  instances'[i].sigkill
            /\ (~instances[i].sigkill /\ instances'[i].sigkill) =>
                  instances[i].timer = "armed"]_vars

\* One killed instance has been sent SIGTERM and then SIGKILL; on another the
\* timer found the flag set and sent nothing.
C10_Witness ==
    \E i, j \in InstanceIndices :
        /\ instances[i].sigterm /\ instances[i].sigkill
        /\ instances[j].sigterm /\ instances[j].timer = "done" /\ ~instances[j].sigkill

\* ------------------------------------------------------------------ focus
\* C11: after any sequence of supervisor commands the focus indexes a
\* process: focused_process_index is in [0, processes.len()), read for the
\* empty list as the index 0 that Processes::new gives it.
C11_FocusInRange ==
    IF Len(processes) = 0 THEN focused_process_index = 0 ELSE FocusInRange

\* ------------------------------------------------------------------ scrollback
Max(a, b) == IF a > b THEN a ELSE b
FocusedProcess == processes[focused_process_index + 1]
LiveScreen == instances[FocusedProcess.instance].screen
UpDirections == {"PageUp", "LineUp"}
PageDirections == {"PageUp", "PageDown"}

\* The line_index a scroll in `direction` must leave, starting from `start` on
\* a screen.
Scrolled(start, screen, direction) ==
    LET amount == IF direction \in PageDirections
                  THEN screen.physical_rows \div 2 ELSE 1 IN
    IF direction \in UpDirections
    THEN Max(0, start - amount)
    ELSE Min(screen.base, start + amount)

\* C12: a snapshot's line_index starts at the first physical row of the
\* captured screen's viewport and stays in [0, that row] whatever is scrolled:
\* a page scroll moves it by half the physical rows and a line scroll by one,
\* clamped to the range.
C12_SnapshotIndexInRange ==
    /\ [](snapshot.held /\ snapshot.screen # NoScreen =>
            /\ 0 <= snapshot.line_index
            /\ snapshot.line_index <= snapshot.screen.base)
    /\ [][\A direction \in ScrollDirections :
            Scroll(direction) /\ ~crashed' /\ snapshot'.screen # NoScreen =>
                snapshot'.line_index =
                    Scrolled(IF snapshot.held THEN snapshot.line_index
                             ELSE LiveScreen.base,
                             snapshot'.screen, direction)]_vars

\* A snapshot scrolled to a row strictly between the top of the scrollback and
\* the viewport.
C12_Witness ==
    /\ snapshot.held
    /\ snapshot.line_index > 0
    /\ snapshot.line_index < snapshot.screen.base

\* ------------------------------------------------------------------ autofocus
FailingAfterTick == {k \in 1..Len(processes') : is_failure(to_status(processes'[k]))}
Failing(k) == k \in 1..Len(processes) /\ is_failure(to_status(processes[k]))

\* C13: a do_work in Main mode with autofocus enabled leaves the focus on the
\* lowest-indexed process whose status is a failure, if there is one; any other
\* do_work leaves the focus where it was.
C13_AutofocusPicksFirstFailing ==
    [][Tick =>
        focused_process_index' =
            IF mode = "Main" /\ autofocus_enabled /\ FailingAfterTick # {}
            THEN (CHOOSE k \in FailingAfterTick : \A j \in FailingAfterTick : k <= j) - 1
            ELSE focused_process_index]_vars

\* A tick has left the focus on the second process, the only failing one.
C13_Witness ==
    /\ lastCall.op = "do_work"
    /\ mode = "Main"
    /\ autofocus_enabled
    /\ focused_process_index = 1
    /\ Failing(2)
    /\ ~Failing(1)

\* C14: with autofocus enabled, a do_work that finds the focused process
\* failing before and after leaves the focus on it.
C14_FocusStaysOnFailing ==
    [][Tick /\ autofocus_enabled /\ Failing(focused_process_index + 1)
            /\ (focused_process_index + 1) \in FailingAfterTick =>
        focused_process_index' = focused_process_index]_vars

\* C14 as the code has it: with autofocus enabled, a do_work that finds the
\* focused process failing before and after leaves the focus on a failing
\* process, that one or one with a lower index, and outside Main mode on
\* that one.
C14_FocusLeavesOnlyForLowerFailing ==
    [][Tick /\ autofocus_enabled /\ Failing(focused_process_index + 1)
            /\ (focused_process_index + 1) \in FailingAfterTick =>
        /\ (focused_process_index' + 1) \in FailingAfterTick
        /\ focused_process_index' <= focused_process_index
        /\ mode # "Main" => focused_process_index' = focused_process_index]_vars

\* A tick has left the focus on the first of two failing processes.
C14_Witness ==
    /\ lastCall.op = "do_work"
    /\ mode = "Main"
    /\ autofocus_enabled
    /\ focused_process_index = 0
    /\ Failing(1)
    /\ Failing(2)

\* ------------------------------------------------------------------ manual focus
ArrowKeys == {"Up", "Down"}

ScrollKeys == {"PageUp", "PageDown", "Up", "Down"}

\* C16: the mode machine.  Entering the process takes Main to Forward; a
\* scroll takes Main to History, and a scroll takes a snapshot of the focused
\* process only if none is held; leaving the process takes Forward to Main;
\* leaving the history takes History to Main and drops the snapshot; and the
\* mode changes in no other way.
C16_ModeMachine ==
    [][/\ KeyPress("Ctrl-e") /\ mode = "Main" => mode' = "Forward"
       /\ KeyPress("Ctrl-e") /\ mode = "Forward" => mode' = "Main"
       /\ KeyPress("q") /\ mode = "History" => mode' = "Main" /\ ~snapshot'.held
       /\ \A key_event \in ScrollKeys :
            KeyPress(key_event) /\ mode \in {"Main", "History"} /\ ~crashed' =>
                /\ mode' = "History"
                /\ snapshot'.held
                /\ snapshot'.screen =
                       IF snapshot.held THEN snapshot.screen
                       ELSE IF FocusedProcess.instance_state = "Running"
                       THEN LiveScreen ELSE NoScreen
       /\ mode' # mode =>
            <<mode, mode'>> \in {<<"Main", "Forward">>, <<"Main", "History">>,
                                 <<"Forward", "Main">>, <<"History", "Main">>}]_vars

\* History mode, on a snapshot that has been scrolled up.
C16_Witness ==
    /\ mode = "History"
    /\ snapshot.held
    /\ snapshot.line_index < snapshot.screen.base

\* ------------------------------------------------------------------ what is drawn
LiveLines ==
    IF FocusedProcess.instance_state = "Running"
    THEN [screen |-> LiveScreen, first |-> LiveScreen.base]
    ELSE NoLines

C18_SnapshotFrozen ==
    [][snapshot.held =>
        /\ snapshot'.held => snapshot'.screen = snapshot.screen
        /\ snapshot'.held /\ snapshot'.line_index # snapshot.line_index =>
               \E key_event \in ScrollKeys : KeyPress(key_event)
        /\ ~snapshot'.held => KeyPress("q")]_vars

\* A snapshot is held of a screen that the process's terminal, or the process,
\* has since left behind.
C18_Witness ==
    /\ FocusInRange
    /\ snapshot.held
    /\ snapshot.screen # NoScreen
    /\ \/ FocusedProcess.instance_state # "Running"
       \/ LiveScreen # snapshot.screen

\* ------------------------------------------------------------------ spawn errors
\* C19: a process whose spawn failed is not spawned again by a do_work: one
\* that is FailedToStart before a tick is not Running after it.
C19_FailedToStartNotRespawnedByTick ==
    [][Tick =>
        \A k \in ProcessIndices :
            processes[k].instance_state = "FailedToStart" =>
                processes'[k].instance_state # "Running"]_vars

\* ------------------------------------------------------------------ success ids
IsSuccessStatus(status) == status.tag = "Success"
SuccessIndicesIn(window) ==
    LET successes == SelectSeq(window, IsSuccessStatus) IN
    [n \in 1..Len(successes) |-> successes[n].b]

ParsesToZero == {<<"0">>, <<"0", "0">>, <<"+", "0">>}
CountOf(text) ==
    CASE text = <<"7">> -> 7
      [] text = <<"1", "5">> -> 15
      [] OTHER -> NoCount

\* C21: analyze_line follows the decision table: nothing for a line that
\* trims to nothing; else, with an error regex that matches, Success when
\* group 1 parses to 0 and Errors with the parsed count (none when it does not
\* parse) otherwise, before the success regex is looked at; else Success with
\* a success regex that matches; else Running.
C21_AnalyzeLineTable ==
    probe.fn = "analyze_line" /\ probe.done =>
        LET line == probe.in.last_line
            analyzer == probe.in.analyzer IN
        probe.out =
            IF line.blank THEN NoAnalysis
            ELSE IF analyzer.error_regex /\ line.error_regex # NoMatch
            THEN IF line.error_regex \in ParsesToZero
                 THEN LineAnalysis("Success", NoCount)
                 ELSE LineAnalysis("Errors", CountOf(line.error_regex))
            ELSE IF analyzer.success_regex /\ line.success_regex
            THEN LineAnalysis("Success", NoCount)
            ELSE LineAnalysis("Running", NoCount)

\* Both regexes match a line that reports 7 errors: the analysis is Errors.
C21_Witness ==
    /\ probe.fn = "analyze_line"
    /\ probe.done
    /\ probe.in.analyzer = [success_regex |-> TRUE, error_regex |-> TRUE]
    /\ probe.in.last_line = [blank |-> FALSE, error_regex |-> <<"7">>,
                             success_regex |-> TRUE]
    /\ probe.out = LineAnalysis("Errors", 7)

\* ------------------------------------------------------------------ status predicates
\* C22: is_success holds exactly for Success and Exited with code 0,
\* is_failure exactly for FailedToStart, Errors and Exited with another code,
\* is_running exactly for Running, Success and Errors, and no status is both
\* a success and a failure.
C22_StatusPredicates ==
    probe.fn = "status" /\ probe.done =>
        LET status == probe.in IN
        /\ probe.out.is_success <=>
              status.tag = "Success" \/ (status.tag = "Exited" /\ status.a = 0)
        /\ probe.out.is_failure <=>
              \/ status.tag \in {"FailedToStart", "Errors"}
              \/ (status.tag = "Exited" /\ status.a # 0)
        /\ probe.out.is_running <=> status.tag \in {"Running", "Success", "Errors"}
        /\ ~(probe.out.is_success /\ probe.out.is_failure)

\* Exited with code 0 is a success, not a failure and not running.
C22_Witness ==
    /\ probe.fn = "status"
    /\ probe.done
    /\ probe.in = StatusExited(0)
    /\ probe.out = [is_success |-> TRUE, is_failure |-> FALSE, is_running |-> FALSE]

\* ------------------------------------------------------------------ new process
\* C24: a new Process is PendingRestart when its autostart is true and
\* NotStarted otherwise, autostart being the explicit value when there is one
\* and else true exactly without `after`; and Process::do_work spawns a
\* PendingRestart process and leaves a NotStarted one as it is.
C24_NewProcessState ==
    probe.fn = "Process::new" /\ probe.done =>
        LET config == probe.in.config
            starts == \/ config.autostart = "Some(true)"
                      \/ config.autostart = "None" /\ config.after = NoName
            process == probe.out.S.p[1] IN
        /\ probe.out.new.instance_state =
              IF starts THEN "PendingRestart" ELSE "NotStarted"
        /\ probe.out.ticks > 0 =>
              IF starts
              THEN /\ process.instance_state =
                          IF probe.in.ok THEN "Running" ELSE "FailedToStart"
                   /\ Len(probe.out.S.i) = IF probe.in.ok THEN 1 ELSE 0
              ELSE process = probe.out.new /\ probe.out.S.i = <<>>

\* A process with `after` and no explicit autostart is NotStarted after two
\* calls of do_work.
C24_Witness ==
    /\ probe.fn = "Process::new"
    /\ probe.done
    /\ probe.in.config.after # NoName
    /\ probe.in.config.autostart = "None"
    /\ probe.out.ticks = MaxProbeTicks
    /\ probe.out.S.p[1].instance_state = "NotStarted"

\* ------------------------------------------------------------------ focus moves
AllMoves(moves, move) == \A n \in 1..Len(moves) : moves[n] = move

\* C27: move_focus_down goes from the last index to 0 and move_focus_up from
\* 0 to the last index, and otherwise they move by one; as many moves in one
\* direction as there are processes come back to the start; and
\* move_focus_up undoes move_focus_down.
C27_FocusMovesWrap ==
    probe.fn = "move_focus" =>
        LET len == probe.in.len
            moves == probe.in.moves
            path == probe.out IN
        /\ \A n \in 1..Len(moves) :
              path[n + 1] =
                  IF moves[n] = "down"
                  THEN IF path[n] = len - 1 THEN 0 ELSE path[n] + 1
                  ELSE IF path[n] = 0 THEN len - 1 ELSE path[n] - 1
        /\ Len(moves) = len /\ (AllMoves(moves, "down") \/ AllMoves(moves, "up")) =>
              path[len + 1] = path[1]
        /\ \A n \in 1..(Len(moves) - 1) :
              moves[n] = "down" /\ moves[n + 1] = "up" => path[n + 2] = path[n]

\* Three processes, three moves up from the first: the focus is back on it.
C27_Witness ==
    /\ probe.fn = "move_focus"
    /\ probe.in.len = 3
    /\ probe.in.moves = <<"up", "up", "up">>
    /\ probe.out = <<0, 2, 1, 0>>

\* ------------------------------------------------------------------ key table
\* The rows of the table that name a key: the mode, the key and the event.
BoundKeys ==
    {<<"Main", "a", "ToggleAutofocus">>,
     <<"Main", "Up", "FocusProcessUp">>,
     <<"Main", "Down", "FocusProcessDown">>,
     <<"Main", "r", "RestartProcess">>,
     <<"Main", "PageUp", "ScrollPageUp">>,
     <<"Main", "Ctrl-e", "EnterProcess">>,
     <<"Main", "Ctrl-c", "Quit">>,
     <<"Forward", "Ctrl-e", "LeaveProcess">>,
     <<"History", "q", "LeaveHistory">>,
     <<"History", "PageUp", "ScrollPageUp">>,
     <<"History", "PageDown", "ScrollPageDown">>,
     <<"History", "Up", "ScrollLineUp">>,
     <<"History", "Down", "ScrollLineDown">>}

\* The event a table gives a key in a mode: the row's, else the key itself
\* forwarded in Forward mode and nothing in the other modes.
TableEvent(table, m, key_event) ==
    IF \E row \in table : row[1] = m /\ row[2] = key_event
    THEN (CHOOSE row \in table : row[1] = m /\ row[2] = key_event)[3]
    ELSE IF m = "Forward" THEN "SendToFocusedProcess" ELSE NoEvent

\* C29: read_key_event gives every key in every mode the event of the
\* keybinding table, in which PgDn scrolls a page down in Main mode as it does
\* in History mode.
C29_KeyTableWithPageDownInMain ==
    probe.fn = "read_key_event" /\ probe.done =>
        probe.out = TableEvent(BoundKeys \cup {<<"Main", "PageDown", "ScrollPageDown">>},
                               probe.in.mode, probe.in.key_event)

\* C29 as the code has it: read_key_event gives every key in every mode the
\* event of the keybinding table, in which PgDn is bound in History mode only.
C29_KeyTable ==
    probe.fn = "read_key_event" /\ probe.done =>
        probe.out = TableEvent(BoundKeys, probe.in.mode, probe.in.key_event)

\* PgDn in History mode scrolls a page down.
C29_Witness ==
    /\ probe.fn = "read_key_event"
    /\ probe.done
    /\ probe.in = [key_event |-> "PageDown", mode |-> "History"]
    /\ probe.out = "ScrollPageDown"

\* ------------------------------------------------- visible status and instance
OwnsInstance(k) == processes[k].instance # NoInstance

\* C23 as stated: in every reachable state the visible status of a Process is
\* a running one if and only if the Process owns a ProcessInstance.
C23_RunningIffOwnsInstance ==
    \A k \in ProcessIndices :
        is_running(to_status(processes[k])) <=> OwnsInstance(k)

\* C23 amended: the visible status is a running one if and only if the Process
\* is PendingRestart (shown as Running, with no instance yet) or owns an
\* instance whose child it has not observed as exited; a Process that owns an
\* instance shows a running status or Exited.
C23_RunningIffPendingOrLiveInstance ==
    \A k \in ProcessIndices :
        /\ is_running(to_status(processes[k]))
              <=> \/ processes[k].instance_state = "PendingRestart"
                  \/ OwnsInstance(k) /\ to_status(processes[k]).tag # "Exited"
        /\ processes[k].instance_state = "PendingRestart" => ~OwnsInstance(k)
        /\ OwnsInstance(k) =>
              to_status(processes[k]).tag \in {"Running", "Success", "Errors", "Exited"}

\* One process waits to be restarted and shows Running without an instance,
\* while another owns an instance and shows Exited.
C23_Witness ==
    \E k, j \in ProcessIndices :
        /\ processes[k].instance_state = "PendingRestart"
        /\ ~OwnsInstance(k)
        /\ is_running(to_status(processes[k]))
        /\ OwnsInstance(j)
        /\ to_status(processes[j]).tag = "Exited"
        /\ ~is_running(to_status(processes[j]))

\* ----------------------------------------------------- order of the statuses
\* No dependency action of the tick is applied to process u.
UntouchedInStep(u) ==
    \A n \in 1..Len(lastCall'.applied) : lastCall'.applied[n].downstream # u

\* The channel of instance i after the step: as before, with one status more
\* at its end, or emptied.
ChannelKeepsOrderInStep(i) ==
    LET before == instances[i].chan
        now == instances'[i].chan IN
    \/ now = before
    \/ now = <<>>
    \/ /\ Len(now) = Len(before) + 1
       /\ SubSeq(now, 1, Len(before)) = before

\* C25: the statuses of one process are observed in the order they were sent:
\* a status sent joins the end of those waiting; one synchronize_status sets
\* the status to the last one sent before the drain and discards the earlier
\* ones, and a drain that finds no status leaves the status as it was.
C25_LastStatusSentWins ==
    [][/\ \A i \in 1..Len(instances) : ChannelKeepsOrderInStep(i)
       /\ Tick =>
             \A u \in ProcessIndices :
                 (processes[u].instance_state = "Running" /\ UntouchedInStep(u)) =>
                     /\ processes'[u].status =
                           IF Drains(u) THEN NewStatus(u) ELSE processes[u].status
                     /\ instances'[processes[u].instance].chan = <<>>
                     /\ Drains(u) =>
                           \E m \in 1..Len(lastCall'.drained) :
                               lastCall'.drained[m] =
                                   [process |-> u, window |-> Window(u)]]_vars

\* A tick has just drained two statuses of one process, the first differing
\* from the last, and the process shows the last.
C25_Witness ==
    /\ lastCall.op = "do_work"
    /\ \E m \in 1..Len(lastCall.drained) :
          LET window == lastCall.drained[m].window
              u == lastCall.drained[m].process IN
          /\ Len(window) >= 2
          /\ window[1] # window[Len(window)]
          /\ processes[u].instance_state = "Running"
          /\ processes[u].status = window[Len(window)]

\* ------------------------------------------------------- unknown upstream
\* The `after` of process k names no process.
UnknownUpstream(P, k) ==
    /\ P[k].after # NoName
    /\ \A j \in 1..Len(P) : P[j].name # P[k].after

\* C26: a process whose `after` names no existing process is ignored by the
\* dependency logic: registering it raises no error and adds it to the list,
\* and no tick applies Restart or WaitForUpstream to it or, because of its
\* entry, to any other process: every action applied goes from a process to
\* one whose `after` is that process's name, and the process itself is never
\* WaitingForUpstream and changes variant in a tick only by being spawned.
C26_UnknownUpstreamIgnored ==
    /\ [](\A k \in ProcessIndices :
             UnknownUpstream(processes, k) =>
                 processes[k].instance_state # "WaitingForUpstream")
    /\ [][/\ lastCall'.op = "start_process" =>
               /\ ~crashed'
               /\ Len(processes') = Len(processes) + 1
               /\ SubSeq(processes', 1, Len(processes)) = processes
          /\ Tick =>
               /\ \A n \in 1..Len(lastCall'.applied) :
                     LET a == lastCall'.applied[n] IN
                     /\ processes[a.downstream].after = processes[a.upstream].name
                     /\ ~UnknownUpstream(processes, a.downstream)
               /\ \A k \in ProcessIndices :
                     UnknownUpstream(processes, k) =>
                         \/ processes'[k].instance_state = processes[k].instance_state
                         \/ /\ processes[k].instance_state = "PendingRestart"
                            /\ processes'[k].instance_state \in {"Running", "FailedToStart"}]_vars

\* A tick has just drained a Success of the first process while the second,
\* whose `after` names no process, is listed in the table and was left
\* NotStarted; nothing was applied.
C26_Witness ==
    /\ lastCall.op = "do_work"
    /\ lastCall.applied = <<>>
    /\ \E m \in 1..Len(lastCall.drained) :
          /\ lastCall.drained[m].process = 1
          /\ \E n \in 1..Len(lastCall.drained[m].window) :
                lastCall.drained[m].window[n].tag = "Success"
    /\ Len(processes) = 2
    /\ UnknownUpstream(processes, 2)
    /\ after["serve"] = <<1, 2>>
    /\ processes[2].instance_state = "NotStarted"
    /\ ~crashed

\* ------------------------------------------------------------------- resize
\* C28: a resize with the size the supervisor already has changes nothing and
\* resizes no instance; a resize with a different size sets the supervisor's
\* size and the size every process keeps and resizes the instance of every
\* process that owns one, so that in every state each process keeps the
\* supervisor's size, each owned instance has it, and every instance started
\* opens with it.
C28_ResizeReachesEveryProcess ==
    /\ [](\A k \in ProcessIndices :
             /\ processes[k].pty_rows = pty_rows
             /\ OwnsInstance(k) =>
                   instances[processes[k].instance].screen.physical_rows = pty_rows)
    /\ [][/\ lastCall'.op = "resize" =>
               IF lastCall'.rows = pty_rows
               THEN /\ UNCHANGED <<pty_rows, processes, instances>>
                    /\ lastCall'.resized = {}
               ELSE /\ pty_rows' = lastCall'.rows
                    /\ lastCall'.resized =
                          {processes[k].instance :
                              k \in {j \in ProcessIndices : OwnsInstance(j)}}
                    /\ \A k \in ProcessIndices :
                          processes'[k] = [processes[k] EXCEPT !.pty_rows = lastCall'.rows]
                    /\ \A i \in 1..Len(instances) :
                          instances'[i] =
                              IF i \in lastCall'.resized
                              THEN [instances[i] EXCEPT
                                       !.screen.physical_rows = lastCall'.rows]
                              ELSE instances[i]
          /\ \A i \in (Len(instances) + 1)..Len(instances') :
               instances'[i].screen.physical_rows = pty_rows']_vars

\* A resize to another size has just reached two processes, the first with
\* an instance, which was resized, and the second without one, which keeps
\* the size for the instance it will start.
C28_Witness ==
    /\ lastCall.op = "resize"
    /\ lastCall.rows = ResizedRows
    /\ lastCall.resized = {1}
    /\ Len(processes) = 2
    /\ processes[1].instance = 1
    /\ instances[1].screen.physical_rows = ResizedRows
    /\ ~OwnsInstance(2)
    /\ processes[2].pty_rows = ResizedRows

\* ------------------------------------------------- kill after termination
\* What a kill() may change of instance i.
KillEffects(I, i) == <<I[i].sigterm, I[i].timer, I[i].sigkill>>

\* Instance i has been let go of by a kill() that sent no SIGTERM.
KilledWithoutSigterm(i) == ~instances[i].rx_open /\ ~instances[i].sigterm

\* C30: kill() on an instance whose has-terminated flag is set does nothing:
\* the step sends no SIGTERM and starts no kill timer, and no later step sends
\* SIGTERM or SIGKILL to that instance or starts a timer for it.
C30_KillAfterTerminationDoesNothing ==
    /\ [](\A i \in InstanceIndices :
             KilledWithoutSigterm(i) =>
                 /\ instances[i].has_terminated
                 /\ KillEffects(instances, i) = <<FALSE, "none", FALSE>>)
    /\ [][\A i \in InstanceIndices :
             /\ (/\ instances[i].has_terminated
                 /\ instances[i].rx_open
                 /\ ~instances'[i].rx_open) =>
                   /\ KillEffects(instances', i) = KillEffects(instances, i)
                   /\ KilledWithoutSigterm(i)'
             /\ KilledWithoutSigterm(i) => KilledWithoutSigterm(i)']_vars

\* The child of an instance exited and its flag was set; the process was then
\* killed, and the instance was sent nothing and has no timer.
C30_Witness ==
    \E i \in InstanceIndices :
        /\ KilledWithoutSigterm(i)
        /\ instances[i].has_terminated
        /\ instances[i].child = "reaped"
        /\ instances[i].timer = "none"
        /\ ~instances[i].sigkill
        /\ lastCall.op \in {"restart_focused", "stop_all", "do_work"}

\* ------------------------------------------------- signals and the reaped child
\* Instance i is sent a signal in the step.
SignalledInStep(i) ==
    \/ ~instances[i].sigterm /\ instances'[i].sigterm
    \/ ~instances[i].sigkill /\ instances'[i].sigkill

\* C40: no signal, SIGTERM from kill() or SIGKILL from a kill timer, is sent
\* to the PID of a child after the reader's wait on that child has returned.
C40_NoSignalAfterWait ==
    [][\A i \in InstanceIndices :
          SignalledInStep(i) => instances[i].child # "reaped"]_vars

\* ------------------------------------------- dependency actions per process
\* How many dependency actions a tick's log applies to process d.
ActionsOn(d, applied) ==
    Cardinality({n \in 1..Len(applied) : applied[n].downstream = d})

\* The processes bearing the name process d runs after that have statuses
\* waiting.
ReportingUpstreamsOf(d) ==
    {u \in ProcessIndices : Drains(u) /\ processes[u].name = processes[d].after}

\* C38 as stated: in one do_work tick each process receives at most one
\* dependency action, processes of the same display name included.
C38_AtMostOneActionPerProcess ==
    [][Tick => \A d \in ProcessIndices : ActionsOn(d, lastCall'.applied) <= 1]_vars

\* C38 amended: in one do_work tick each process receives one dependency
\* action for each process that bears the name in its `after` and observes a
\* new status in that tick, and no other: at most one when that name is borne
\* by one process.
C38_OneActionPerReportingUpstream ==
    [][Tick =>
          \A d \in ProcessIndices :
              /\ ActionsOn(d, lastCall'.applied) = Cardinality(ReportingUpstreamsOf(d))
              /\ \A n \in 1..Len(lastCall'.applied) :
                    lastCall'.applied[n].downstream = d =>
                        lastCall'.applied[n].upstream \in ReportingUpstreamsOf(d)]_vars

\* A tick has just applied two dependency actions to one process, one for
\* each of two processes of the same name.
C38_Witness ==
    /\ lastCall.op = "do_work"
    /\ \E d \in ProcessIndices :
          /\ ActionsOn(d, lastCall.applied) = 2
          /\ \E m, n \in 1..Len(lastCall.applied) :
                /\ lastCall.applied[m].downstream = d
                /\ lastCall.applied[n].downstream = d
                /\ lastCall.applied[m].upstream # lastCall.applied[n].upstream
                /\ processes[lastCall.applied[m].upstream].name
                      = processes[lastCall.applied[n].upstream].name

\* ------------------------------------------------- whose status a process takes
\* Process k owns instance i.
CurrentInstance(k, i) ==
    processes[k].instance_state = "Running" /\ processes[k].instance = i

\* The channel of instance i gets a status in the step.
SentInStep(i) == Len(instances'[i].chan) > Len(instances[i].chan)

\* The step is a step of a thread of instance i: it changes that instance
\* and nothing of the processes or of the other instances.
ThreadStepOf(i) ==
    /\ processes' = processes
    /\ Len(instances') = Len(instances)
    /\ \A j \in InstanceIndices : j # i => instances'[j] = instances[j]

C37_SnapshotHeldIffHistory == snapshot.held <=> mode = "History"

\* C37 amended: in History mode a snapshot is held; a snapshot is taken only
\* by a scroll that finds none held, of the process focused at that moment,
\* and the scroll enters History; it is let go of only by leave_history,
\* which enters Main; while it is held it changes only by being scrolled, so
\* that forward_input_to_focused_process and enter_main_mode leave it held
\* outside History and a focus move, a restart or a tick leaves it with the
\* process it was taken from.
C37_SnapshotHeldFromScrollToLeave ==
    /\ [](mode = "History" => snapshot.held)
    /\ [][/\ (~snapshot.held /\ snapshot'.held) =>
               /\ mode' = "History"
               /\ FocusInRange
               /\ focused_process_index' = focused_process_index
               /\ \E direction \in ScrollDirections :
                     snapshot' = SnapshotScroll(
                         ProcessSnapshot(processes[focused_process_index + 1]),
                         direction)
          /\ (snapshot.held /\ ~snapshot'.held) =>
               /\ mode' = "Main"
               /\ snapshot' = NoSnapshot
          /\ (snapshot.held /\ snapshot'.held) =>
               \/ snapshot' = snapshot
               \/ /\ mode' = "History"
                  /\ \E direction \in ScrollDirections :
                        snapshot' = SnapshotScroll(snapshot, direction)
          /\ (focused_process_index' # focused_process_index
                 \/ processes' # processes \/ instances' # instances) =>
               snapshot' = snapshot]_vars

\* A snapshot taken of the first process is still held in Main mode while the
\* second process is focused.
C37_Witness ==
    /\ snapshot.held
    /\ mode = "Main"
    /\ Len(processes) = 2
    /\ focused_process_index = 1
    /\ processes[1].instance_state = "Running"
    /\ processes[2].instance_state = "Running"
    /\ snapshot.screen # NoScreen
    /\ snapshot.screen.base # instances[processes[2].instance].screen.base

\* ------------------------------------------------- lines split over reads
\* C39: the reader classifies completed lines only and independently of how
\* the output is split into reads: after every read the line buffer, the
\* parser's state and the statuses sent are those of one read of all the
\* bytes so far, and as long as no boundary has been read nothing is sent.
C39_ChunkingIndependent ==
    probe.fn = "reader" =>
        LET read == SubSeq(probe.in.bytes, 1, probe.out.at) IN
        /\ probe.out.reader = ReadChunk(NewReader, read)
        /\ (\A n \in 1..Len(read) : read[n] \notin {"LF", "CR", "c"}) =>
              probe.out.reader.sent = <<>>
        /\ (read # <<>> /\ read[Len(read)] \in {"LF", "CR"}) =>
              probe.out.reader.last_line = <<>>

\* The line ok arrived one byte per read, its line feed in a read of its own,
\* and was classified once, as a Success.
C39_Witness ==
    /\ probe.fn = "reader"
    /\ probe.done
    /\ probe.in.bytes = <<"o", "k", "LF">>
    /\ probe.in.cuts = {1, 2}
    /\ probe.out.reader.sent = <<StatusSuccess(0, 0)>>

\* ------------------------------------------------- statuses and the screen
\* A tick has just taken from the channel of process k a status its reader
\* made of an output line.
ObservedLineStatus(k) ==
    /\ lastCall.op = "do_work"
    /\ \E d \in 1..Len(lastCall.drained) : lastCall.drained[d].process = k
    /\ processes[k].instance_state = "Running"
    /\ processes[k].observed
    /\ processes[k].status.tag \in {"Running", "Success", "Errors"}

\* C35: whenever the foreground observes a status the reader made of an
\* output line, the screen the foreground can read already holds that line:
\* the lines performed on the screen reach the line the status was made of.
C35_ScreenHasObservedLine ==
    \A k \in ProcessIndices :
        ObservedLineStatus(k) =>
            instances[processes[k].instance].screen.lines
                >= instances[processes[k].instance].last_sent_line

\* ------------------------------------------------- the end of the output
\* The calls of the reader once a read has given 0 bytes, in order: each name
\* is the call just made.
AfterEof == <<"waited", "flagged", "exited", "done">>

\* The reader of instance i has made the n-th of those calls.
ReaderPast(i, n) == \E later \in n..Len(AfterEof) : instances[i].reader = AfterEof[later]

\* C31: after a read of 0 bytes the reader waits for the child, sets the
\* has-terminated flag, sends Exited with the exit code, wakes the UI and
\* stops, in this order.  So an Exited in a channel is its last status and
\* carries the code the wait gave, nothing is sent after it, and whenever an
\* Exited is in the channel or has been taken by the foreground the flag is
\* set.
C31_ExitedOnceLastAndFlagged ==
    /\ [](\A i \in InstanceIndices :
             /\ instances[i].child = "reaped" <=> ReaderPast(i, 1)
             /\ instances[i].has_terminated <=> ReaderPast(i, 2)
             /\ \A n \in 1..Len(instances[i].chan) :
                   instances[i].chan[n].tag = "Exited" =>
                       /\ n = Len(instances[i].chan)
                       /\ ReaderPast(i, 3)
                       /\ instances[i].chan[n] = StatusExited(instances[i].exit_code)
             /\ instances[i].exited_drained => ReaderPast(i, 3)
             /\ (CurrentInstance(instances[i].process, i)
                    /\ processes[instances[i].process].status.tag = "Exited") =>
                   /\ instances[i].has_terminated
                   /\ instances[i].exited_drained)
    /\ [][\A i \in InstanceIndices :
             /\ \A n \in 1..Len(AfterEof) :
                   (instances'[i].reader = AfterEof[n]
                        /\ instances[i].reader # AfterEof[n]) =>
                       instances[i].reader = IF n = 1 THEN "reading" ELSE AfterEof[n - 1]
             /\ ReaderPast(i, 1) => instances'[i].reader \notin {"reading", "parsed"}
             /\ (instances[i].reader = "flagged" /\ instances'[i].reader = "exited"
                    /\ instances[i].rx_open) =>
                   instances'[i].chan =
                       Append(instances[i].chan, StatusExited(instances[i].exit_code))
             /\ SentInStep(i) /\ Last(instances'[i].chan).tag = "Exited" =>
                   instances[i].reader = "flagged" /\ instances'[i].reader = "exited"
             /\ ReaderPast(i, 3) => ~SentInStep(i)
             /\ (instances[i].reader = "exited" /\ instances'[i].reader = "done") =>
                   ui'.wake]_vars

\* A child has exited with code 1; its reader has waited, set the flag, sent
\* Exited, woken the UI and stopped, and a tick has taken the Exited.
C31_Witness ==
    /\ Len(instances) = 1
    /\ instances[1].reader = "done"
    /\ instances[1].has_terminated
    /\ instances[1].exited_drained
    /\ instances[1].analyzed > 0
    /\ processes[1].instance_state = "Running"
    /\ processes[1].status = StatusExited(1)

\* ------------------------------------------------- the terminal's lock
\* The positions of a reader in which it is in, or about to make, a call that
\* can block: the read ("reading", and the wait that follows a read of 0
\* bytes), a status send ("parsed", "flagged"), and a wake ("performed",
\* "exited").
InRead == {"reading"}
InSend == {"parsed", "waited", "flagged"}
InWake == {"performed", "exited"}

\* The reader of the instance the process holds has the terminal's lock.
OwnedLocked == \E i \in InstanceIndices : Owned(i) /\ instances[i].terminal_locked

OwnedWaiting == \E i \in InstanceIndices : Owned(i) /\ instances[i].chan # <<>>

\* The reader of the instance the process holds is between a read that gave
\* bytes, or the send of Exited, and the wake that follows.
OwnedBeforeWake ==
    \E i \in InstanceIndices :
        Owned(i) /\ instances[i].reader \in {"parsed", "locked", "performed", "exited"}

ReaderStepOf(i) ==
    /\ ThreadStepOf(i)
    /\ lastCall' = NoCall
    /\ UNCHANGED <<after, focused_process_index, autofocus_enabled, mode, snapshot,
                   pty_rows, crashed, looping, ui>>

\* What the terminal of an instance shows: the rows that have scrolled off
\* and the lines performed on it.
ScreenContent(instance) == <<instance.screen.base, instance.screen.lines>>

\* C32 as stated: no step but the reader's changes the emulated terminal.
C32_OnlyReaderMutatesTerminal ==
    [][\A i \in InstanceIndices :
          instances'[i].screen # instances[i].screen => ReaderStepOf(i)]_vars

\* C32: for each instance the reader is the only sender on the status channel
\* and the only writer of what the emulated terminal shows; of the foreground
\* calls resize alone changes the terminal, and only its size, and send_input,
\* lines, cursor_position, snapshot and kill change nothing of it; no
\* foreground call puts a status in a channel.
C32_ReaderWritesScreenAndSends ==
    [][\A i \in InstanceIndices :
          /\ SentInStep(i) => ReaderStepOf(i)
          /\ ScreenContent(instances'[i]) # ScreenContent(instances[i]) => ReaderStepOf(i)
          /\ instances'[i].screen.physical_rows # instances[i].screen.physical_rows =>
                /\ lastCall'.op = "resize"
                /\ instances'[i].screen.physical_rows = lastCall'.rows
                /\ instances'[i].chan = instances[i].chan
          /\ lastCall'.op # "none" => ~SentInStep(i)]_vars

\* The reader of the process's instance has scrolled its screen and sent its
\* Exited; since then the window was resized, so that the terminal has the new
\* size and the rows the reader scrolled, and a snapshot of it was taken.
C32_Witness ==
    /\ Len(instances) = 1
    /\ instances[1].rx_open
    /\ instances[1].screen.physical_rows = ResizedRows
    /\ instances[1].screen.base = ScrollPerOutput
    /\ instances[1].chan = <<StatusExited(0)>>
    /\ snapshot.held
    /\ snapshot.screen = instances[1].screen

====
